---- MODULE Spec2Model ----
(***************************************************************************)
(* Purchase-order extraction core of DigiTradeX (ocr_extractors.py,        *)
(* ocr_service.py).  OCR text is a string; the regular expressions of the  *)
(* source are written as pattern terms and matched by a backtracking       *)
(* matcher with the priority order of Python's re module (leftmost start,  *)
(* alternatives left to right, greedy before shorter, lazy before longer). *)
(***************************************************************************)
EXTENDS Integers, Sequences, FiniteSets, TLC

(***************************************************************************)
(* Characters and strings.  A character is a string of length one; the     *)
(* character at 0-based offset i of t is SubSeq(t, i+1, i+1).              *)
(***************************************************************************)
UpperChars == "ABCDEFGHIJKLMNOPQRSTUVWXYZ"
LowerChars == "abcdefghijklmnopqrstuvwxyz"
DigitChars == "0123456789"

CharAt(t, i) == SubSeq(t, i + 1, i + 1)

CharsOf(s) == {CharAt(s, i) : i \in 0..(Len(s) - 1)}

Upper == CharsOf(UpperChars)
Lower == CharsOf(LowerChars)
Digit == CharsOf(DigitChars)
Alpha == Upper \cup Lower
AlNum == Alpha \cup Digit
\* \w of re (ASCII part) and \s of re (the whitespace the texts contain)
Word  == AlNum \cup {"_"}
Space == {" ", "\n", "\t"}

ToLowerMap == [c \in Upper |->
                 LET i == CHOOSE j \in 0..25 : CharAt(UpperChars, j) = c
                 IN  CharAt(LowerChars, i)]

ToLower(c) == IF c \in Upper THEN ToLowerMap[c] ELSE c

RECURSIVE LowerStr(_)
LowerStr(s) == IF s = "" THEN ""
               ELSE ToLower(CharAt(s, 0)) \o LowerStr(SubSeq(s, 2, Len(s)))

(***************************************************************************)
(* Pattern terms.  A pattern is a sequence of nodes.                       *)
(*   Lit(s)            the literal text s                                  *)
(*   Cls(cs,lo,hi,g)   lo..hi characters of the set cs (hi = -1: no upper  *)
(*                     limit), greedy when g, lazy otherwise               *)
(*   NCls(cs,lo,hi,g)  the same for characters outside cs                  *)
(*   Alt(as)           the alternatives as (a sequence of patterns)        *)
(*   Grp(n, p)         capture group number n around p                     *)
(*   Eol               the anchor $                                        *)
(***************************************************************************)
Lit(s) == [k |-> "lit", s |-> s]
Cls(cs, lo, hi, g)  == [k |-> "cls", neg |-> FALSE, cs |-> cs, lo |-> lo, hi |-> hi, g |-> g]
NCls(cs, lo, hi, g) == [k |-> "cls", neg |-> TRUE, cs |-> cs, lo |-> lo, hi |-> hi, g |-> g]
Alt(as) == [k |-> "alt", as |-> as]
Grp(n, p) == [k |-> "grp", n |-> n, p |-> p]
Eol == [k |-> "eol"]

\* shorthands of the regular-expression syntax
Inf == 0 - 1
One(cs)     == Cls(cs, 1, 1, TRUE)
Star(cs)    == Cls(cs, 0, Inf, TRUE)
Plus(cs)    == Cls(cs, 1, Inf, TRUE)
Opt1(cs)    == Cls(cs, 0, 1, TRUE)
NotOne(cs)  == NCls(cs, 1, 1, TRUE)
\* . is any character but a newline; under re.DOTALL it is any character
DotStarLazy    == NCls({"\n"}, 0, Inf, FALSE)
DotStar        == NCls({"\n"}, 0, Inf, TRUE)
DotAllStarLazy == NCls({}, 0, Inf, FALSE)
\* (?:p)? : p preferred, the empty match second
Opt(p) == Alt(<<p, <<>>>>)
WS  == Star(Space)
WS1 == Plus(Space)

NoCaps(n) == [g \in 1..n |-> <<-1, -1>>]
Fail == [ok |-> FALSE]

\* does character c belong to the class of node nd (ic: re.IGNORECASE)
InCls(nd, c, ic) ==
  LET hit == \/ c \in nd.cs
             \/ ic /\ c \in Upper /\ ToLowerMap[c] \in nd.cs
             \/ ic /\ c \in Lower /\ \E u \in Upper : ToLowerMap[u] = c /\ u \in nd.cs
  IN  hit # nd.neg

LitAt(t, i, s, ic) ==
  /\ i + Len(s) <= Len(t)
  /\ IF ic THEN /\ ToLower(CharAt(t, i)) = ToLower(CharAt(s, 0))
                /\ LowerStr(SubSeq(t, i + 1, i + Len(s))) = LowerStr(s)
           ELSE SubSeq(t, i + 1, i + Len(s)) = s

\* number of consecutive characters from offset i that are in the class, at most hi
RECURSIVE Run(_, _, _, _, _)
Run(t, i, nd, ic, k) ==
  IF (nd.hi # Inf /\ k >= nd.hi) \/ i + k >= Len(t) THEN k
  ELSE IF InCls(nd, CharAt(t, i + k), ic) THEN Run(t, i, nd, ic, k + 1)
  ELSE k

\* $ : at the end, or before a final newline; under re.MULTILINE before any newline
AtEol(t, i, ml) ==
  \/ i = Len(t)
  \/ i = Len(t) - 1 /\ CharAt(t, i) = "\n"
  \/ ml /\ i < Len(t) /\ CharAt(t, i) = "\n"

(***************************************************************************)
(* M(t, fl, rs, i, caps): the first way, in re's priority order, to match  *)
(* the node sequence rs from offset i of t; fl = <<ignorecase, multiline>>.*)
(* The result carries the end offset and the spans of the capture groups.  *)
(***************************************************************************)
RECURSIVE M(_, _, _, _, _)

\* the attempts of a set that matched
Matched(tries) == {x \in tries : x[2].ok}

\* the repetition counts lo..hi, tried downwards when greedy and upwards
\* otherwise: the first that lets rest match
TryCount(t, fl, rest, i, caps, lo, hi, greedy) ==
  CHOOSE v \in {IF ok = {} THEN Fail
                ELSE (CHOOSE x \in ok : \A y \in ok :
                        IF greedy THEN x[1] >= y[1] ELSE x[1] <= y[1])[2] :
                ok \in {Matched({<<k, M(t, fl, rest, i + k, caps)>> : k \in lo..hi})}} : TRUE

\* the alternatives as, in order: the first that lets rest match
TryAlt(t, fl, as, rest, i, caps) ==
  CHOOSE v \in {IF ok = {} THEN Fail
                ELSE (CHOOSE x \in ok : \A y \in ok : x[1] <= y[1])[2] :
                ok \in {Matched({<<j, M(t, fl, as[j] \o rest, i, caps)>> :
                                  j \in 1..Len(as)})}} : TRUE

M(t, fl, rs, i, caps) ==
  IF rs = <<>> THEN [ok |-> TRUE, e |-> i, caps |-> caps]
  ELSE
    LET nd == Head(rs)
        rest == Tail(rs)
    IN  CASE nd.k = "lit" ->
               IF LitAt(t, i, nd.s, fl[1]) THEN M(t, fl, rest, i + Len(nd.s), caps)
               ELSE Fail
          [] nd.k = "cls" ->
               TryCount(t, fl, rest, i, caps, nd.lo, Run(t, i, nd, fl[1], 0), nd.g)
          [] nd.k = "alt" -> TryAlt(t, fl, nd.as, rest, i, caps)
          [] nd.k = "grp" ->
               M(t, fl, nd.p \o <<[k |-> "close", n |-> nd.n, s |-> i]>> \o rest, i, caps)
          [] nd.k = "close" ->
               M(t, fl, rest, i, [caps EXCEPT ![nd.n] = <<nd.s, i>>])
          [] nd.k = "eol" ->
               IF AtEol(t, i, fl[2]) THEN M(t, fl, rest, i, caps) ELSE Fail

\* re.search from offset i on: the match with the leftmost start
SearchFrom(t, fl, p, ng, i) ==
  CHOOSE v \in {IF ok = {} THEN Fail
                ELSE LET x == CHOOSE x \in ok : \A y \in ok : x[1] <= y[1]
                     IN  [ok |-> TRUE, s |-> x[1], e |-> x[2].e, caps |-> x[2].caps] :
                ok \in {Matched({<<s, M(t, fl, p, s, NoCaps(ng))>> : s \in i..Len(t)})}} : TRUE

\* flags
IC    == <<TRUE, FALSE>>
ICML  == <<TRUE, TRUE>>
PLAIN == <<FALSE, FALSE>>

search(p, t, fl) == SearchFrom(t, fl, p, 5, 0)

\* match.group(n); an unset group reads as "" here
group(t, m, n) == IF m.caps[n][1] < 0 THEN ""
                  ELSE SubSeq(t, m.caps[n][1] + 1, m.caps[n][2])

\* re.findall: the successive non-overlapping matches, left to right
RECURSIVE FindAllFrom(_, _, _, _)
FindAllFrom(t, fl, p, i) ==
  CHOOSE v \in {IF ~r.ok THEN <<>>
                ELSE <<r>> \o FindAllFrom(t, fl, p, IF r.e > r.s THEN r.e ELSE r.e + 1) :
                r \in {SearchFrom(t, fl, p, 5, i)}} : TRUE

findall(p, t, fl) == FindAllFrom(t, fl, p, 0)

\* str.strip(chars): the characters of cs removed from both ends
RECURSIVE LStrip(_, _)
LStrip(s, cs) == IF s # "" /\ CharAt(s, 0) \in cs THEN LStrip(SubSeq(s, 2, Len(s)), cs) ELSE s

RECURSIVE RStrip(_, _)
RStrip(s, cs) == IF s # "" /\ CharAt(s, Len(s) - 1) \in cs
                 THEN RStrip(SubSeq(s, 1, Len(s) - 1), cs) ELSE s

strip(s) == RStrip(LStrip(s, Space), Space)

\* s.replace(old, ""): every occurrence of old removed, left to right
RECURSIVE remove(_, _)
remove(s, old) ==
  IF Len(s) < Len(old) THEN s
  ELSE IF SubSeq(s, 1, Len(old)) = old THEN remove(SubSeq(s, Len(old) + 1, Len(s)), old)
  ELSE CharAt(s, 0) \o remove(SubSeq(s, 2, Len(s)), old)

\* old in s
contains(s, old) == \E i \in 0..(Len(s) - Len(old)) : SubSeq(s, i + 1, i + Len(old)) = old

(***************************************************************************)
(* identify_po_format (ocr_extractors.py).                                 *)
(***************************************************************************)
\* dict iteration order of format_features
FormatOrder == <<"format1", "format2", "format3">>

Apostrophe == Alt(<< <<Lit("'")>>, <<Lit("'")>> >>)
Slashes == Alt(<< <<Lit("///")>>, <<Lit("///")>> >>)

\* the (pattern, weight) features of each format
format_features ==
  [format1 |-> <<
     << <<Lit("(Buyer"), Apostrophe, Lit("s Info)")>>, 10 >>,
     << <<Lit("ABC Company")>>, 5 >>,
     << <<Lit("Purchase Order"), Opt1({":"}), WS, Plus(Digit)>>, 5 >>,
     << <<Lit("Ship to:")>>, 3 >>,
     << <<Lit("Unit Price"), Opt1({":"}), WS, Lit("$")>>, 3 >>,
     << <<Lit("EXT Price:")>>, 3 >>,
     << <<Lit("Inco Terms:")>>, 2 >>,
     << <<Lit("Del Date:")>>, 2 >> >>,
   format2 |-> <<
     << <<Lit("Purchase Order"), WS, Eol>>, 10 >>,
     << <<Lit("Supplier:")>>, 5 >>,
     << <<Lit("Purchase Order no"), Opt1({":"}), WS, Plus(Digit)>>, 5 >>,
     << <<Lit("Payment Terms:")>>, 3 >>,
     << <<Lit("Incoterms:")>>, 3 >>,
     << <<Lit("Discharge Port:")>>, 3 >>,
     << <<Lit("Buyer:")>>, 3 >>,
     << <<Lit("Commodity")>>, 2 >>,
     << <<Lit("Grand Total")>>, 2 >> >>,
   format3 |-> <<
     << <<Slashes, Lit("ORDER CONFIMATION"), Slashes>>, 10 >>,
     << <<Lit("Contract Party"), WS, Lit(":")>>, 5 >>,
     << <<Lit("Order No.")>>, 5 >>,
     << <<Lit("Grade "), One(Upper)>>, 3 >>,
     << <<Lit("Qt'y (mt)")>>, 3 >>,
     << <<Lit("PORT OF DISCHARGE")>>, 3 >>,
     << <<Lit("Payment term")>>, 2 >>,
     << <<Lit("TIME OF SHIPMENT")>>, 2 >>,
     << <<Lit("PORT OF LOADING")>>, 2 >> >>]

\* line 57: the features of the format that re.search finds in the text
feature_matches(ocr_text) ==
  [f \in {"format1", "format2", "format3"} |->
     {j \in 1..Len(format_features[f]) : search(format_features[f][j][1], ocr_text, IC).ok}]

\* lines 55-58: the weights of the matching features, summed
RECURSIVE feature_score(_, _, _)
feature_score(features, hits, j) ==
  IF j > Len(features) THEN 0
  ELSE (IF j \in hits THEN features[j][2] ELSE 0) + feature_score(features, hits, j + 1)

format_scores(matches) ==
  [f \in {"format1", "format2", "format3"} |-> feature_score(format_features[f], matches[f], 1)]

\* a faulty total: the weights of all three formats, whatever the format
all_weights(features, j) ==
  feature_score(format_features.format1, 1..Len(format_features.format1), 1)
  + feature_score(format_features.format2, 1..Len(format_features.format2), 1)
  + feature_score(format_features.format3, 1..Len(format_features.format3), 1)

RECURSIVE weight_sum(_, _)
weight_sum(features, j) ==
  IF j > Len(features) THEN 0 ELSE features[j][2] + weight_sum(features, j + 1)

\* a faulty max: of the keys with the highest score, the last in dict order
last_max_key(scores) ==
  LET i == CHOOSE i \in 1..Len(FormatOrder) :
             /\ \A j \in 1..Len(FormatOrder) : scores[FormatOrder[j]] <= scores[FormatOrder[i]]
             /\ \A j \in (i + 1)..Len(FormatOrder) : scores[FormatOrder[j]] < scores[FormatOrder[i]]
  IN  FormatOrder[i]

\* max(format_scores, key=format_scores.get): the first key, in dict order,
\* whose score no other key exceeds
max_key(scores) ==
  LET i == CHOOSE i \in 1..Len(FormatOrder) :
             /\ \A j \in 1..Len(FormatOrder) : scores[FormatOrder[j]] <= scores[FormatOrder[i]]
             /\ \A j \in 1..(i - 1) : scores[FormatOrder[j]] < scores[FormatOrder[i]]
  IN  FormatOrder[i]

\* a confidence is the quotient num/den of two integers, kept as the pair
Quot(num, den) == [num |-> num, den |-> den]
Zero == Quot(0, 1)

\* a faulty result: "unknown" as soon as one format scores zero
identify_any_zero(scores) ==
  IF \E f \in DOMAIN scores : scores[f] = 0
  THEN [format |-> "unknown", confidence |-> Zero]
  ELSE [format |-> max_key(scores),
        confidence |-> Quot(scores[max_key(scores)],
                            weight_sum(format_features[max_key(scores)], 1))]

\* lines 61-72: the result, from the scores
identify_from(scores) ==
  IF \A f \in DOMAIN scores : scores[f] = 0
  THEN [format |-> "unknown", confidence |-> Zero]
  ELSE LET total_possible_score == weight_sum(format_features[max_key(scores)], 1)
           best_format == max_key(scores)
       IN  [format |-> best_format,
            confidence |-> IF total_possible_score > 0
                           THEN Quot(scores[best_format], total_possible_score)
                           ELSE Zero]

identify_po_format(ocr_text) == identify_from(format_scores(feature_matches(ocr_text)))

(***************************************************************************)
(* extract_field_by_regex (ocr_extractors.py).                             *)
(***************************************************************************)
\* re.sub(r'^[:\s]+|[:\s]+$', '', value): the run of colons and whitespace
\* at the start and the run at the end are removed
strip_symbols(value) == RStrip(LStrip(value, Space \cup {":"}), Space \cup {":"})

\* a faulty field extractor: the whole match in place of its first group
RECURSIVE whole_match_from(_, _, _, _)
whole_match_from(ocr_text, patterns, default_value, j) ==
  IF j > Len(patterns) THEN default_value
  ELSE LET match == search(patterns[j], ocr_text, ICML)
       IN  IF match.ok /\ strip(group(ocr_text, match, 1)) # ""
           THEN strip_symbols(strip(SubSeq(ocr_text, match.s + 1, match.e)))
           ELSE whole_match_from(ocr_text, patterns, default_value, j + 1)

\* a faulty field extractor: a later pattern that succeeds overrides an earlier one
RECURSIVE last_match_from(_, _, _, _)
last_match_from(ocr_text, patterns, default_value, j) ==
  IF j > Len(patterns) THEN default_value
  ELSE LET match == search(patterns[j], ocr_text, ICML)
           later == last_match_from(ocr_text, patterns, default_value, j + 1)
       IN  IF later = default_value /\ match.ok /\ strip(group(ocr_text, match, 1)) # ""
           THEN strip_symbols(strip(group(ocr_text, match, 1)))
           ELSE later

\* lines 83-90: the loop over the patterns
RECURSIVE extract_from(_, _, _, _)
extract_from(ocr_text, patterns, default_value, j) ==
  IF j > Len(patterns) THEN default_value
  ELSE LET match == search(patterns[j], ocr_text, ICML)
       IN  IF match.ok /\ strip(group(ocr_text, match, 1)) # ""
           THEN strip_symbols(strip(group(ocr_text, match, 1)))
           ELSE extract_from(ocr_text, patterns, default_value, j + 1)

extract_field_by_regex(ocr_text, patterns, default_value) ==
  extract_from(ocr_text, patterns, default_value, 1)

(***************************************************************************)
(* Pieces the patterns of the extractors share.                            *)
(***************************************************************************)
\* (?:\n|$)
EndLine == Alt(<< <<Lit("\n")>>, <<Eol>> >>)
\* [\d,.] and [\d,] and [\d.]
NumChars == Digit \cup {",", "."}
\* \s*(.*?)(?:\n|$)
RestOfLine == <<WS, Grp(1, <<DotStarLazy>>), EndLine>>
\* (?:KG|kg|MT|mt)
UnitAlt == Alt(<< <<Lit("KG")>>, <<Lit("kg")>>, <<Lit("MT")>>, <<Lit("mt")>> >>)
\* (USD|EUR|JPY|CNY)
currency_pattern ==
  <<Grp(1, <<Alt(<< <<Lit("USD")>>, <<Lit("EUR")>>, <<Lit("JPY")>>, <<Lit("CNY")>> >>)>>)>>

\* a faulty currency step: "USD" when the text names no currency code
currency_or_usd(ocr_text) ==
  LET currency_match == search(currency_pattern, ocr_text, PLAIN)
  IN  IF currency_match.ok THEN group(ocr_text, currency_match, 1) ELSE "USD"

\* lines 123-125: the first of the four currency codes in the text, or ""
currency_of(ocr_text) ==
  LET currency_match == search(currency_pattern, ocr_text, PLAIN)
  IN  IF currency_match.ok THEN group(ocr_text, currency_match, 1) ELSE ""

LineItem(name, quantity, unitPrice, amount) ==
  [name |-> name, quantity |-> quantity, unitPrice |-> unitPrice, amount |-> amount]

(***************************************************************************)
(* extract_format1_data (ocr_extractors.py).                               *)
(***************************************************************************)
\* the pattern lists and patterns of extract_format1_data
format1_patterns ==
  [customer |->
      <<
      <<Lit("ABC Company")>> \o RestOfLine,
      <<Lit("(Buyer"), Apostrophe, Lit("s Info)"), DotStarLazy,
      Grp(1, <<Plus(AlNum \cup Space), Lit("Company")>>)>> >>,
   poNumber |->
      <<
      <<Lit("Purchase Order"),
      Opt(<<Alt(<< <<Lit(":")>>, <<Lit("Order")>>, <<Lit("Number")>> >>)>>),
      Opt1({":"}), WS, Grp(1, <<Plus(Digit)>>)>>,
      <<Alt(<< <<Lit("PO")>>, <<Lit("Order")>> >>), Opt(<<WS1, Lit("No")>>),
      Opt1({"."}), Opt1({":"}), WS, Grp(1, <<Plus(Digit)>>)>> >>,
   product_name |->
      <<
      <<Lit("Item:")>> \o RestOfLine,
      <<Lit("Product"), Opt1({":"}), WS, Grp(1, <<DotStarLazy>>),
      Alt(<< <<Lit("\n")>>, <<Lit("Quantity")>> >>)>> >>,
   quantity |->
      <<
      <<Lit("Quantity:"), WS, Grp(1, <<Plus(NumChars)>>), WS, UnitAlt>>,
      <<Lit("Qty"), Opt1({":"}), WS, Grp(1, <<Plus(NumChars)>>), WS, UnitAlt>> >>,
   unit_price |->
      <<
      <<Lit("Unit Price:"), WS, Opt1({"$"}), WS, Grp(1, <<Plus(NumChars)>>)>>,
      <<Lit("Unit Price:"), DotStarLazy, Lit("per"), WS, DotStarLazy, Opt1({"$"}), WS,
      Grp(1, <<Plus(NumChars)>>)>> >>,
   amount |->
      <<
      <<Lit("EXT Price:"), WS, Grp(1, <<Plus(NumChars)>>)>>,
      <<Lit("Amount:"), WS, Grp(1, <<Plus(NumChars)>>)>> >>,
   totalAmount |->
      <<
      <<Lit("TOTAL"), WS, Grp(1, <<Plus(NumChars)>>)>>,
      <<Lit("Total"), Opt1({":"}), WS, Grp(1, <<Plus(NumChars)>>)>> >>,
   paymentTerms |->
      <<
      <<Lit("Terms:")>> \o RestOfLine,
      <<Lit("Payment term"), Opt1({"s"}), Opt1({":"})>> \o RestOfLine,
      <<Lit("Net Due within")>> \o RestOfLine >>,
   terms |->
      <<
      <<Lit("Inco Terms:")>> \o RestOfLine,
      <<Lit("Shipping Terms:")>> \o RestOfLine,
      <<Lit("Delivery Terms:")>> \o RestOfLine >>,
   destination |->
      <<
      <<Lit("Ship to:")>> \o RestOfLine,
      <<Lit("Destination:")>> \o RestOfLine,
      <<Lit("Delivery Address:")>> \o RestOfLine >>]


\* a faulty product step: a line item is reported when any of its parts was found
format1_products_if_any(product_name, quantity, unit_price, amount) ==
  IF product_name # "" \/ quantity # "" \/ unit_price # "" \/ amount # ""
  THEN <<LineItem(product_name, quantity, unit_price, amount)>>
  ELSE <<>>

\* lines 148-154: if product_name: result["products"].append({...})
format1_products(product_name, quantity, unit_price, amount) ==
  IF product_name # ""
  THEN <<LineItem(product_name, quantity, unit_price, amount)>>
  ELSE <<>>

extract_format1_data(ocr_text) ==
  LET product_name == extract_field_by_regex(ocr_text, format1_patterns.product_name, "")
      quantity     == extract_field_by_regex(ocr_text, format1_patterns.quantity, "")
      unit_price   == extract_field_by_regex(ocr_text, format1_patterns.unit_price, "")
      amount       == extract_field_by_regex(ocr_text, format1_patterns.amount, "")
  IN  [customer     |-> extract_field_by_regex(ocr_text, format1_patterns.customer, ""),
       poNumber     |-> extract_field_by_regex(ocr_text, format1_patterns.poNumber, ""),
       currency     |-> currency_of(ocr_text),
       products     |-> format1_products(product_name, quantity, unit_price, amount),
       totalAmount  |-> extract_field_by_regex(ocr_text, format1_patterns.totalAmount, ""),
       paymentTerms |-> extract_field_by_regex(ocr_text, format1_patterns.paymentTerms, ""),
       terms        |-> extract_field_by_regex(ocr_text, format1_patterns.terms, ""),
       destination  |-> extract_field_by_regex(ocr_text, format1_patterns.destination, "")]

(***************************************************************************)
(* extract_format2_data (ocr_extractors.py).                               *)
(***************************************************************************)
\* the pattern lists and patterns of extract_format2_data
format2_patterns ==
  [customer |->
      <<
      <<Lit("Buyer:")>> \o RestOfLine,
      <<Alt(<< <<Lit("Buyer")>>, <<Lit("Customer")>>, <<Lit("Client")>> >>), Lit(":")>>
      \o RestOfLine >>,
   poNumber |->
      <<
      <<Lit("Purchase Order no"), Opt1({":"}), WS, Grp(1, <<Plus(Digit)>>)>>,
      <<Lit("PO "), Alt(<< <<Lit("number")>>, <<Lit("no"), Opt1({"."})>> >>), Lit(":"), WS,
      Grp(1, <<Plus(Digit)>>)>> >>,
   \* ([A-Za-z0-9]+)\s+(Product [A-Za-z])\s+([\d,]+)\s*kg\s+US\$?([\d.]+)\s+US\$?([\d,.]+)
   row_pattern |->
      <<Grp(1, <<Plus(AlNum)>>), WS1, Grp(2, <<Lit("Product "), One(Alpha)>>), WS1,
      Grp(3, <<Plus(Digit \cup {","})>>), WS, Lit("kg"), WS1,
      Lit("US"), Opt1({"$"}), Grp(4, <<Plus(Digit \cup {"."})>>), WS1,
      Lit("US"), Opt1({"$"}), Grp(5, <<Plus(NumChars)>>)>>,
   \* (Product [A-Za-z])[^\n]*\n[^\n]*?([\d,]+)\s*kg[^\n]*?(US\$[\d.]+)[^\n]*?(US\$[\d,.]+)
   section_pattern |->
      <<Grp(1, <<Lit("Product "), One(Alpha)>>), DotStar, Lit("\n"), DotStarLazy,
      Grp(2, <<Plus(Digit \cup {","})>>), WS, Lit("kg"), DotStarLazy,
      Grp(3, <<Lit("US$"), Plus(Digit \cup {"."})>>), DotStarLazy,
      Grp(4, <<Lit("US$"), Plus(NumChars)>>)>>,
   name_pattern |->
      <<Lit("Product "), Grp(1, <<One(Upper)>>)>>,
   quantity_pattern |->
      <<Grp(1, <<Plus(Digit \cup {","})>>), WS, Lit("kg")>>,
   price_pattern |->
      <<Lit("US$"), Grp(1, <<Plus(NumChars)>>)>>,
   totalAmount |->
      <<
      <<Lit("Grand Total"), DotStarLazy, Lit("US$"), WS, Grp(1, <<Plus(Digit \cup {","})>>)>>,
      <<Lit("Total"), Opt1({":"}), WS, Lit("US$"), WS, Grp(1, <<Plus(Digit \cup {","})>>)>>,
      <<Lit("Total Amount"), Opt1({":"}), WS, Lit("US$"), WS,
      Grp(1, <<Plus(Digit \cup {","})>>)>> >>,
   paymentTerms |->
      <<
      <<Lit("Payment Terms:")>> \o RestOfLine,
      <<Lit("Payment"), Opt1({":"})>> \o RestOfLine >>,
   terms |->
      <<
      <<Lit("Incoterms:")>> \o RestOfLine,
      <<Alt(<< <<Lit("Shipping")>>, <<Lit("Delivery")>> >>), Lit(" Terms:")>> \o RestOfLine >>,
   destination |->
      <<
      <<Lit("Discharge Port:")>> \o RestOfLine,
      <<Alt(<< <<Lit("Ship to")>>, <<Lit("Destination")>>, <<Lit("Delivery Address")>> >>),
      Lit(":")>> \o RestOfLine >>]


\* lines 225-231: one line item per table row
f2_row_items(ocr_text, product_rows) ==
  [i \in 1..Len(product_rows) |->
     LineItem(strip(group(ocr_text, product_rows[i], 2)),
              strip(group(ocr_text, product_rows[i], 3)),
              strip(group(ocr_text, product_rows[i], 4)),
              strip(group(ocr_text, product_rows[i], 5)))]

\* lines 236-242: one line item per section
f2_section_items(ocr_text, product_sections) ==
  [i \in 1..Len(product_sections) |->
     LineItem(strip(group(ocr_text, product_sections[i], 1)),
              strip(group(ocr_text, product_sections[i], 2)),
              strip(remove(group(ocr_text, product_sections[i], 3), "US$")),
              strip(remove(group(ocr_text, product_sections[i], 4), "US$")))]

\* a faulty pairing: the prices are taken one after the other, not two at a time
RECURSIVE f2_paired_adjacent(_, _, _, _)
f2_paired_adjacent(product_names, quantities, prices, i) ==
  IF i >= Len(product_names) THEN <<>>
  ELSE (IF i < Len(quantities) /\ i + 1 < Len(prices)
        THEN <<LineItem("Product " \o product_names[i + 1], quantities[i + 1],
                        prices[i + 1], prices[i + 2])>>
        ELSE <<>>)
       \o f2_paired_adjacent(product_names, quantities, prices, i + 1)

\* lines 252-259: the loop over enumerate(product_names) from index i (0-based) on
RECURSIVE f2_paired_items(_, _, _, _)
f2_paired_items(product_names, quantities, prices, i) ==
  IF i >= Len(product_names) THEN <<>>
  ELSE (IF i < Len(quantities) /\ i * 2 + 1 < Len(prices)
        THEN <<LineItem("Product " \o product_names[i + 1],
                        quantities[i + 1],
                        IF i * 2 < Len(prices) THEN prices[i * 2 + 1] ELSE "",
                        IF i * 2 + 1 < Len(prices) THEN prices[i * 2 + 2] ELSE "")>>
        ELSE <<>>)
       \o f2_paired_items(product_names, quantities, prices, i + 1)

\* the list of group(1) of the matches
groups1(ocr_text, matches) == [i \in 1..Len(matches) |-> group(ocr_text, matches[i], 1)]

\* a faulty strategy: the sections are added to the rows
f2_products_mixed(ocr_text) ==
  LET product_rows == findall(format2_patterns.row_pattern, ocr_text, PLAIN)
      product_sections == findall(format2_patterns.section_pattern, ocr_text, PLAIN)
      products == f2_row_items(ocr_text, product_rows)
                  \o f2_section_items(ocr_text, product_sections)
  IN  IF products = <<>>
      THEN f2_paired_items(groups1(ocr_text, findall(format2_patterns.name_pattern, ocr_text, PLAIN)),
                           groups1(ocr_text, findall(format2_patterns.quantity_pattern, ocr_text, PLAIN)),
                           groups1(ocr_text, findall(format2_patterns.price_pattern, ocr_text, PLAIN)), 0)
      ELSE products

\* lines 222-259: rows, else sections, else the positional pairing
f2_products(ocr_text) ==
  LET product_rows == findall(format2_patterns.row_pattern, ocr_text, PLAIN)
      product_sections == findall(format2_patterns.section_pattern, ocr_text, PLAIN)
      products == IF product_rows # <<>> THEN f2_row_items(ocr_text, product_rows)
                  ELSE f2_section_items(ocr_text, product_sections)
  IN  IF products = <<>>
      THEN f2_paired_items(groups1(ocr_text, findall(format2_patterns.name_pattern, ocr_text, PLAIN)),
                           groups1(ocr_text, findall(format2_patterns.quantity_pattern, ocr_text, PLAIN)),
                           groups1(ocr_text, findall(format2_patterns.price_pattern, ocr_text, PLAIN)), 0)
      ELSE products

extract_format2_data(ocr_text) ==
  [customer     |-> extract_field_by_regex(ocr_text, format2_patterns.customer, ""),
   poNumber     |-> extract_field_by_regex(ocr_text, format2_patterns.poNumber, ""),
   currency     |-> currency_of(ocr_text),
   products     |-> f2_products(ocr_text),
   totalAmount  |-> extract_field_by_regex(ocr_text, format2_patterns.totalAmount, ""),
   paymentTerms |-> extract_field_by_regex(ocr_text, format2_patterns.paymentTerms, ""),
   terms        |-> extract_field_by_regex(ocr_text, format2_patterns.terms, ""),
   destination  |-> extract_field_by_regex(ocr_text, format2_patterns.destination, "")]

(***************************************************************************)
(* extract_format3_data (ocr_extractors.py).                               *)
(***************************************************************************)
\* the pattern lists and patterns of extract_format3_data
format3_patterns ==
  [customer |->
      <<
      <<Lit("Contract Party"), WS, Lit(":")>> \o RestOfLine,
      <<Lit("B/L CONSIGNEE"), WS, Lit(":")>> \o RestOfLine >>,
   poNumber |->
      <<
      <<Lit("Order No."), WS, Grp(1, <<DotStarLazy>>),
      Alt(<< <<Lit("\n")>>, <<Lit("Grade")>>, <<Lit("Origin")>> >>)>>,
      <<Lit("Buyers"), Opt(<<Apostrophe>>), WS1, Lit("Order No."), WS, Grp(1, <<DotStarLazy>>),
      Alt(<< <<Lit("\n")>>, <<Lit("Grade")>>, <<Eol>> >>)>> >>,
   grade |->
      << <<Lit("Grade"), WS1, Grp(1, <<Plus(AlNum)>>)>> >>,
   quantity |->
      << <<Lit("Qt'y"), WS, Lit("(mt)"), WS, Grp(1, <<Plus(Digit \cup {"."})>>)>> >>,
   unit_price |->
      << <<Lit("Unit Price"), WS, Lit("("), NCls({")"}, 1, Inf, TRUE), Lit(")"), WS,
      Grp(1, <<Plus(NumChars)>>)>> >>,
   amount |->
      << <<Lit("Total Amount"), WS, Grp(1, <<Plus(NumChars)>>)>> >>,
   totalAmount |->
      <<
      <<Lit("TOTAL"), DotStarLazy, Lit("USD"), WS, Grp(1, <<Plus(NumChars)>>)>>,
      <<Lit("Total Amount"), WS, Lit("USD"), WS, Grp(1, <<Plus(NumChars)>>)>>,
      <<Lit("Total Amount"), WS, Grp(1, <<Plus(NumChars)>>)>> >>,
   paymentTerms |->
      <<
      <<Lit("Payment term"), WS, Opt1({"\n"})>> \o RestOfLine,
      <<Lit("Payment"), WS, Lit(":")>> \o RestOfLine >>,
   terms |->
      <<
      <<Lit("Term")>> \o RestOfLine,
      <<Lit("CIF"), WS1, Grp(1, <<DotStarLazy>>),
      Alt(<< <<Lit("\n")>>, <<Lit("PORT")>> >>)>> >>,
   destination |->
      <<
      <<Lit("PORT OF DISCHARGE")>> \o RestOfLine,
      <<Lit("PORT OF"), WS, Lit("DISCHARGE"), WS, Grp(1, <<DotStarLazy>>),
      Alt(<< <<Lit("\n")>>, <<Lit("Payment")>> >>)>> >>]


\* a faulty currency step: the code the text names, as in the other extractors
format3_currency_of_text(ocr_text) == currency_of(ocr_text)

\* line 319: result["currency"] = "USD"
format3_currency(ocr_text) == "USD"

\* lines 327-333: if grade: result["products"].append({"name": f"Grade {grade}", ...})
format3_products(grade, quantity, unit_price, amount) ==
  IF grade # ""
  THEN <<LineItem("Grade " \o grade, quantity, unit_price, amount)>>
  ELSE <<>>

extract_format3_data(ocr_text) ==
  LET grade      == extract_field_by_regex(ocr_text, format3_patterns.grade, "")
      quantity   == extract_field_by_regex(ocr_text, format3_patterns.quantity, "")
      unit_price == extract_field_by_regex(ocr_text, format3_patterns.unit_price, "")
      amount     == extract_field_by_regex(ocr_text, format3_patterns.amount, "")
  IN  [customer     |-> extract_field_by_regex(ocr_text, format3_patterns.customer, ""),
       poNumber     |-> extract_field_by_regex(ocr_text, format3_patterns.poNumber, ""),
       currency     |-> format3_currency(ocr_text),
       products     |-> format3_products(grade, quantity, unit_price, amount),
       totalAmount  |-> extract_field_by_regex(ocr_text, format3_patterns.totalAmount, ""),
       paymentTerms |-> extract_field_by_regex(ocr_text, format3_patterns.paymentTerms, ""),
       terms        |-> extract_field_by_regex(ocr_text, format3_patterns.terms, ""),
       destination  |-> extract_field_by_regex(ocr_text, format3_patterns.destination, "")]

(***************************************************************************)
(* extract_generic_data (ocr_extractors.py).                               *)
(***************************************************************************)
customer_patterns == <<
  <<Alt(<< <<Lit("Customer")>>, <<Lit("Client")>>, <<Lit("Buyer")>>, <<Lit("Company")>>,
           <<Lit("Purchaser")>> >>), Lit(":")>> \o RestOfLine,
  <<Alt(<< <<Lit("To")>>, <<Lit("Bill to")>> >>), Lit(":")>> \o RestOfLine,
  <<Lit("Contract Party"), WS, Lit(":")>> \o RestOfLine,
  <<Lit("B/L CONSIGNEE"), WS, Lit(":")>> \o RestOfLine,
  <<Lit("ABC Company")>> \o RestOfLine,
  <<Lit("(Buyer"), Apostrophe, Lit("s Info)"), DotStarLazy,
    Grp(1, <<Plus(AlNum \cup Space), Lit("Company")>>)>> >>

\* (?:PO|Purchase Order|Order) (?:No|Number|#)\.?:?\s*
po_label ==
  <<Alt(<< <<Lit("PO")>>, <<Lit("Purchase Order")>>, <<Lit("Order")>> >>), Lit(" "),
    Alt(<< <<Lit("No")>>, <<Lit("Number")>>, <<Lit("#")>> >>), Opt1({"."}), Opt1({":"}), WS>>

po_patterns == <<
  po_label \o <<Grp(1, <<Plus(Word), Plus(Digit \cup {"-"})>>)>>,
  po_label \o <<Grp(1, <<Plus(Digit)>>)>>,
  <<Lit("Order No."), WS, Grp(1, <<DotStarLazy>>),
    Alt(<< <<Lit("\n")>>, <<Lit("Grade")>>, <<Lit("Origin")>> >>)>>,
  <<Lit("Buyers"), Opt(<<Apostrophe>>), WS1, Lit("Order No."), WS, Grp(1, <<DotStarLazy>>),
    Alt(<< <<Lit("\n")>>, <<Lit("Grade")>>, <<Eol>> >>)>> >>

\* ([A-Za-z0-9]+)\s+(Product [A-Za-z]|Grade [A-Za-z0-9]+)\s+([\d,]+)\s*(?:kg|mt)\s+
\* (?:US\$)?([\d.]+)\s+(?:US\$)?([\d,.]+)
g_row_pattern ==
  <<Grp(1, <<Plus(AlNum)>>), WS1,
    Grp(2, <<Alt(<< <<Lit("Product "), One(Alpha)>>, <<Lit("Grade "), Plus(AlNum)>> >>)>>), WS1,
    Grp(3, <<Plus(Digit \cup {","})>>), WS, Alt(<< <<Lit("kg")>>, <<Lit("mt")>> >>), WS1,
    Opt(<<Lit("US$")>>), Grp(4, <<Plus(Digit \cup {"."})>>), WS1,
    Opt(<<Lit("US$")>>), Grp(5, <<Plus(NumChars)>>)>>

\* (?:Product [A-Za-z]|Grade [A-Za-z0-9]+|Item:.*?).*?(\d+)(?:\s*|\n+)(?:kg|mt|KG|MT).*?
\* (?:US\$|Unit Price:?\s*\$?)?\s*([\d,.]+).*?(?:US\$)?\s*([\d,.]+)   under re.DOTALL
g_section_pattern ==
  <<Alt(<< <<Lit("Product "), One(Alpha)>>, <<Lit("Grade "), Plus(AlNum)>>,
           <<Lit("Item:"), DotAllStarLazy>> >>),
    DotAllStarLazy, Grp(1, <<Plus(Digit)>>),
    Alt(<< <<WS>>, <<Plus({"\n"})>> >>),
    Alt(<< <<Lit("kg")>>, <<Lit("mt")>>, <<Lit("KG")>>, <<Lit("MT")>> >>),
    DotAllStarLazy,
    Opt(<<Alt(<< <<Lit("US$")>>, <<Lit("Unit Price"), Opt1({":"}), WS, Opt1({"$"})>> >>)>>),
    WS, Grp(2, <<Plus(NumChars)>>),
    DotAllStarLazy, Opt(<<Lit("US$")>>), WS, Grp(3, <<Plus(NumChars)>>)>>

\* (?:Product ([A-Z])|Grade ([A-Za-z0-9]+)|Item:\s*(.*?)(?:\n|$))
g_name_pattern ==
  <<Alt(<< <<Lit("Product "), Grp(1, <<One(Upper)>>)>>,
           <<Lit("Grade "), Grp(2, <<Plus(AlNum)>>)>>,
           <<Lit("Item:"), WS, Grp(3, <<DotStarLazy>>), EndLine>> >>)>>

g_product_name == <<
  <<Lit("Item:")>> \o RestOfLine,
  <<Lit("Product"), Opt1({":"}), WS, Grp(1, <<DotStarLazy>>),
    Alt(<< <<Lit("\n")>>, <<Lit("Quantity")>> >>)>>,
  <<Lit("Grade"), WS1, Grp(1, <<Plus(AlNum)>>)>> >>

g_quantity == <<
  <<Lit("Quantity:"), WS, Grp(1, <<Plus(NumChars)>>), WS, UnitAlt>>,
  <<Lit("Qty"), Opt1({":"}), WS, Grp(1, <<Plus(NumChars)>>), WS, UnitAlt>>,
  <<Lit("Qt'y"), WS, Lit("(mt)"), WS, Grp(1, <<Plus(Digit \cup {"."})>>)>> >>

g_unit_price == <<
  <<Lit("Unit Price:"), WS, Opt1({"$"}), WS, Grp(1, <<Plus(NumChars)>>)>>,
  <<Lit("Unit Price:"), DotStarLazy, Lit("per"), WS, DotStarLazy, Opt1({"$"}), WS,
    Grp(1, <<Plus(NumChars)>>)>>,
  <<Lit("Unit Price"), WS, Lit("("), NCls({")"}, 1, Inf, TRUE), Lit(")"), WS,
    Grp(1, <<Plus(NumChars)>>)>> >>

g_amount == <<
  <<Lit("EXT Price:"), WS, Grp(1, <<Plus(NumChars)>>)>>,
  <<Lit("Amount:"), WS, Grp(1, <<Plus(NumChars)>>)>>,
  <<Lit("Total Amount"), WS, Grp(1, <<Plus(NumChars)>>)>> >>

\* (?:USD|US\$)?
OptUsd == Opt(<<Alt(<< <<Lit("USD")>>, <<Lit("US$")>> >>)>>)

total_patterns == <<
  <<Alt(<< <<Lit("TOTAL")>>, <<Lit("Total")>>, <<Lit("Grand Total")>> >>), DotStarLazy,
    OptUsd, WS, Grp(1, <<Plus(NumChars)>>)>>,
  <<Lit("Total Amount"), Opt1({":"}), WS, OptUsd, WS, Grp(1, <<Plus(NumChars)>>)>>,
  <<Alt(<< <<One({"$"})>>, <<Lit("USD")>> >>), WS, Grp(1, <<Plus(NumChars)>>),
    Alt(<< <<WS1, Lit("total")>>, <<WS1, Lit("USD")>> >>)>> >>

payment_patterns == <<
  <<Alt(<< <<Lit("Payment Term"), Opt1({"s"})>>, <<Lit("Terms of Payment")>>,
           <<Lit("Terms")>>, <<Lit("Payment")>> >>), Lit(":")>> \o RestOfLine,
  <<Lit("Net Due within")>> \o RestOfLine,
  <<Lit("Payment term"), WS, Opt1({"\n"})>> \o RestOfLine >>

terms_patterns == <<
  <<Alt(<< <<Lit("Incoterms")>>, <<Lit("Inco Terms")>>, <<Lit("Shipping Terms")>>,
           <<Lit("Delivery Terms")>>, <<Lit("Term")>> >>), Lit(":")>> \o RestOfLine,
  <<Alt(<< <<Lit("CIF")>>, <<Lit("FOB")>>, <<Lit("EXW")>> >>), WS1,
    Grp(1, <<Plus(Alpha \cup Space)>>)>> >>

destination_patterns == <<
  <<Alt(<< <<Lit("Destination")>>, <<Lit("Ship to")>>, <<Lit("Delivery Address")>>,
           <<Lit("Port of Discharge")>>, <<Lit("Discharge Port")>>,
           <<Lit("PORT OF DISCHARGE")>> >>), Lit(":")>> \o RestOfLine,
  <<Alt(<< <<Lit("To")>>, <<Lit("Deliver to")>> >>), Lit(":")>> \o RestOfLine >>

\* str(n) of a non-negative integer
RECURSIVE IntToStr(_)
IntToStr(n) == IF n < 10 THEN CharAt(DigitChars, n)
               ELSE IntToStr(n \div 10) \o CharAt(DigitChars, n % 10)

\* lines 411-417: one line item per table row
g_row_items(ocr_text, product_rows) ==
  [i \in 1..Len(product_rows) |->
     LineItem(strip(group(ocr_text, product_rows[i], 2)),
              strip(group(ocr_text, product_rows[i], 3)),
              strip(group(ocr_text, product_rows[i], 4)),
              strip(group(ocr_text, product_rows[i], 5)))]

\* lines 426-436: the name of the i-th section (i is 0-based)
g_section_name(ocr_text, i) ==
  LET name_match == search(g_name_pattern, ocr_text, PLAIN)
  IN  IF name_match.ok
      THEN IF group(ocr_text, name_match, 1) # ""
           THEN "Product " \o group(ocr_text, name_match, 1)
           ELSE IF group(ocr_text, name_match, 2) # ""
           THEN "Grade " \o group(ocr_text, name_match, 2)
           ELSE IF group(ocr_text, name_match, 3) # ""
           THEN group(ocr_text, name_match, 3)
           ELSE ""
      ELSE "Unknown Product " \o IntToStr(i + 1)

\* lines 424-443: one line item per section
g_section_items(ocr_text, product_sections) ==
  [i \in 1..Len(product_sections) |->
     LineItem(g_section_name(ocr_text, i - 1),
              strip(group(ocr_text, product_sections[i], 1)),
              strip(group(ocr_text, product_sections[i], 2)),
              strip(group(ocr_text, product_sections[i], 3)))]

\* a faulty last tier: the positional pairing of extract_format2_data
g_paired_items(ocr_text) ==
  f2_paired_items(groups1(ocr_text, findall(format2_patterns.name_pattern, ocr_text, PLAIN)),
                  groups1(ocr_text, findall(format2_patterns.quantity_pattern, ocr_text, PLAIN)),
                  groups1(ocr_text, findall(format2_patterns.price_pattern, ocr_text, PLAIN)), 0)

\* lines 447-478: the line item of the separately extracted fields
g_field_items(ocr_text) ==
  LET product_name == extract_field_by_regex(ocr_text, g_product_name, "")
      quantity     == extract_field_by_regex(ocr_text, g_quantity, "")
      unit_price   == extract_field_by_regex(ocr_text, g_unit_price, "")
      amount       == extract_field_by_regex(ocr_text, g_amount, "")
  IN  IF product_name # "" \/ quantity # ""
      THEN <<LineItem(IF product_name # "" THEN product_name ELSE "Unknown Product",
                      quantity, unit_price, amount)>>
      ELSE <<>>

g_products(ocr_text) ==
  LET product_rows == findall(g_row_pattern, ocr_text, PLAIN)
      product_sections == findall(g_section_pattern, ocr_text, PLAIN)
  IN  IF product_rows # <<>> THEN g_row_items(ocr_text, product_rows)
      ELSE IF product_sections # <<>> THEN g_section_items(ocr_text, product_sections)
      ELSE g_field_items(ocr_text)

extract_generic_data(ocr_text) ==
  [customer     |-> extract_field_by_regex(ocr_text, customer_patterns, ""),
   poNumber     |-> extract_field_by_regex(ocr_text, po_patterns, ""),
   currency     |-> currency_of(ocr_text),
   products     |-> g_products(ocr_text),
   totalAmount  |-> extract_field_by_regex(ocr_text, total_patterns, ""),
   paymentTerms |-> extract_field_by_regex(ocr_text, payment_patterns, ""),
   terms        |-> extract_field_by_regex(ocr_text, terms_patterns, ""),
   destination  |-> extract_field_by_regex(ocr_text, destination_patterns, "")]

(***************************************************************************)
(* validate_and_clean_result (ocr_service.py).  The function changes the   *)
(* dict it is given; the operator returns the dict as the call leaves it.  *)
(***************************************************************************)
\* a faulty placeholder: no name
blank_item == LineItem("", "", "", "")

placeholder == LineItem("Unknown Product", "", "", "")

\* a faulty clean-up, re.sub with count=1: only the first other character goes
keep_numeric_once(s) ==
  IF \E i \in 1..Len(s) : CharAt(s, i - 1) \notin NumChars
  THEN LET i == CHOOSE i \in 1..Len(s) :
                  /\ CharAt(s, i - 1) \notin NumChars
                  /\ \A k \in 1..(i - 1) : CharAt(s, k - 1) \in NumChars
       IN  SubSeq(s, 1, i - 1) \o SubSeq(s, i + 1, Len(s))
  ELSE s

\* re.sub(r'[^\d,.]', '', s): only the digits, commas and periods are kept
RECURSIVE keep_numeric(_)
keep_numeric(s) ==
  IF s = "" THEN ""
  ELSE (IF CharAt(s, 0) \in NumChars THEN CharAt(s, 0) ELSE "")
       \o keep_numeric(SubSeq(s, 2, Len(s)))

\* any(token in s for token in tokens)
any_in(s, tokens) == \E token \in tokens : contains(s, token)

\* a faulty unit test: only the lower-case units count
clean_quantity_lower(quantity) ==
  IF quantity # "" /\ any_in(quantity, {"kg", "mt"})
  THEN keep_numeric(quantity) ELSE quantity

\* lines 184-185
clean_quantity(quantity) ==
  IF quantity # "" /\ any_in(quantity, {"kg", "KG", "mt", "MT"})
  THEN keep_numeric(quantity) ELSE quantity

\* lines 188-192 and 195-196
clean_money(value) ==
  IF value # "" /\ any_in(value, {"$", "USD"})
  THEN keep_numeric(value) ELSE value

\* a faulty clean-up: the name is cleaned like the numbers
clean_product_named(product) ==
  [name      |-> keep_numeric(product.name),
   quantity  |-> clean_quantity(product.quantity),
   unitPrice |-> clean_money(product.unitPrice),
   amount    |-> clean_money(product.amount)]

\* lines 182-192: one pass of the loop over the line items
clean_product(product) ==
  [name      |-> product.name,
   quantity  |-> clean_quantity(product.quantity),
   unitPrice |-> clean_money(product.unitPrice),
   amount    |-> clean_money(product.amount)]

\* a faulty validator step: the empty list is left empty
no_placeholder(products) == products

\* lines 173-180: the placeholder is appended to an empty list
with_placeholder(products) ==
  IF products = <<>> THEN Append(products, placeholder) ELSE products

validate_and_clean_result(result) ==
  LET products == with_placeholder(result.products)
  IN  [result EXCEPT
         !.products = [i \in 1..Len(products) |-> clean_product(products[i])],
         !.totalAmount = clean_money(result.totalAmount)]

(***************************************************************************)
(* analyze_extraction_quality (ocr_service.py).  A float with two decimals *)
(* is kept as its number of hundredths: 43 stands for 0.43.                *)
(***************************************************************************)
essential_fields == <<"customer", "poNumber", "totalAmount">>
product_fields == <<"name", "quantity", "unitPrice", "amount">>

\* the recommendation texts of lines 246, 248 and 250
rec_low  == "low quality: check the input manually"
rec_fill == "fill in the missing fields manually"
rec_good == "quality is good: check the content and proceed"

\* round(num/den, 2) in hundredths, ties to the even neighbour
round2(num, den) ==
  LET q == (100 * num) \div den
      r == (100 * num) % den
  IN  IF 2 * r > den \/ (2 * r = den /\ q % 2 = 1) THEN q + 1 ELSE q

\* [field for field in fields if not record[field]]
RECURSIVE missing_of(_, _, _)
missing_of(record, fields, j) ==
  IF j > Len(fields) THEN <<>>
  ELSE (IF record[fields[j]] = "" THEN <<fields[j]>> ELSE <<>>)
       \o missing_of(record, fields, j + 1)

\* ', '.join(names)
RECURSIVE join(_, _)
join(names, j) ==
  IF j > Len(names) THEN ""
  ELSE names[j] \o (IF j < Len(names) THEN ", " ELSE "") \o join(names, j + 1)

\* a faulty check: the last line item is inspected, not the first
missing_fields_of_last(result) ==
  LET has_product == Len(result.products) > 0
      missing_product_fields ==
        IF has_product
        THEN missing_of(result.products[Len(result.products)], product_fields, 1)
        ELSE <<>>
  IN  missing_of(result, essential_fields, 1)
      \o (IF has_product
          THEN (IF missing_product_fields # <<>>
                THEN <<"products(" \o join(missing_product_fields, 1) \o ")">>
                ELSE <<>>)
          ELSE <<"products">>)

\* a faulty check: one entry for every missing sub-field of the first line item
missing_fields_per_subfield(result) ==
  LET has_product == Len(result.products) > 0
  IN  missing_of(result, essential_fields, 1)
      \o (IF has_product
          THEN missing_of(result.products[1], product_fields, 1)
          ELSE <<"products">>)

\* lines 219-229
missing_fields_of(result) ==
  LET has_product == Len(result.products) > 0
      missing_product_fields ==
        IF has_product THEN missing_of(result.products[1], product_fields, 1) ELSE <<>>
  IN  missing_of(result, essential_fields, 1)
      \o (IF has_product
          THEN (IF missing_product_fields # <<>>
                THEN <<"products(" \o join(missing_product_fields, 1) \o ")">>
                ELSE <<>>)
          ELSE <<"products">>)

\* a faulty count: the sub-fields of every line item are counted
total_fields_per_item(result) ==
  Len(essential_fields)
  + (IF Len(result.products) > 0 THEN Len(product_fields) * Len(result.products) ELSE 1)

\* line 232
total_fields_of(result) ==
  Len(essential_fields) + (IF Len(result.products) > 0 THEN Len(product_fields) ELSE 1)

\* a faulty confidence: completeness * 1.2 without the cap of min
uncapped_confidence(filled_fields, total_fields) ==
  round2(12 * filled_fields, 10 * total_fields)

\* a faulty confidence: computed from the completeness already rounded to 2 decimals
confidence_of_rounded(filled_fields, total_fields) ==
  LET completeness == round2(filled_fields, total_fields)
  IN  IF 12 * completeness >= 1000 THEN 100 ELSE round2(12 * completeness, 1000)

\* lines 241-242: min(1.0, completeness * 1.2), rounded; completeness = filled/total
quality_confidence(filled_fields, total_fields) ==
  IF 12 * filled_fields >= 10 * total_fields THEN 100
  ELSE round2(12 * filled_fields, 10 * total_fields)

\* faulty tiers: completeness <= 0.5 is still the low tier
low_up_to_half(filled_fields, total_fields) ==
  IF 2 * filled_fields <= total_fields THEN rec_low
  ELSE IF 10 * filled_fields < 8 * total_fields THEN rec_fill
  ELSE rec_good

\* lines 245-250: the tiers completeness < 0.5 and completeness < 0.8
recommendation_of(filled_fields, total_fields) ==
  IF 2 * filled_fields < total_fields THEN rec_low
  ELSE IF 10 * filled_fields < 8 * total_fields THEN rec_fill
  ELSE rec_good

analyze_extraction_quality(result) ==
  LET missing_fields == missing_fields_of(result)
      total_fields   == total_fields_of(result)
      filled_fields  == total_fields - Len(missing_fields)
  IN  [completeness   |-> round2(filled_fields, total_fields),
       confidence     |-> quality_confidence(filled_fields, total_fields),
       missing_fields |-> missing_fields,
       recommendation |-> recommendation_of(filled_fields, total_fields)]

(***************************************************************************)
(* extract_po_data (ocr_service.py), called with the text.                 *)
(***************************************************************************)
\* a faulty threshold: confidence > 0.4
above_04(confidence) == 10 * confidence.num > 4 * confidence.den

\* confidence >= 0.4
at_least_04(confidence) == 10 * confidence.num >= 4 * confidence.den

\* the if/elif chain of lines 147-158: which extractor runs
dispatch(po_format, confidence) ==
  IF po_format = "format1" /\ at_least_04(confidence) THEN "format1"
  ELSE IF po_format = "format2" /\ at_least_04(confidence) THEN "format2"
  ELSE IF po_format = "format3" /\ at_least_04(confidence) THEN "format3"
  ELSE "generic"

run_extractor(extractor, ocr_text) ==
  CASE extractor = "format1" -> extract_format1_data(ocr_text)
    [] extractor = "format2" -> extract_format2_data(ocr_text)
    [] extractor = "format3" -> extract_format3_data(ocr_text)
    [] extractor = "generic" -> extract_generic_data(ocr_text)

extract_po_data(ocr_text) ==
  LET id == identify_po_format(ocr_text)
  IN  validate_and_clean_result(run_extractor(dispatch(id.format, id.confidence), ocr_text))

(***************************************************************************)
(* json.dumps and json.loads on the documents the program stores: objects  *)
(* whose members are strings.  A dict is the sequence of its <<key, value>>*)
(* pairs in insertion order.                                               *)
(***************************************************************************)
Quote == "\""
Backslash == "\\"

\* the escapes of a JSON string: quote, backslash, newline and tab
RECURSIVE json_escape(_)
json_escape(s) ==
  IF Len(s) > 1
  THEN json_escape(SubSeq(s, 1, Len(s) \div 2))
       \o json_escape(SubSeq(s, Len(s) \div 2 + 1, Len(s)))
  ELSE CASE s = Quote     -> Backslash \o Quote
         [] s = Backslash -> Backslash \o Backslash
         [] s = "\n"      -> Backslash \o "n"
         [] s = "\t"      -> Backslash \o "t"
         [] OTHER         -> s

json_string(s) == Quote \o json_escape(s) \o Quote

RECURSIVE json_members(_, _)
json_members(d, j) ==
  IF j > Len(d) THEN ""
  ELSE json_string(d[j][1]) \o ": " \o json_string(d[j][2])
       \o (IF j < Len(d) THEN ", " ELSE "") \o json_members(d, j + 1)

\* json.dumps(d)
json_dumps(d) == "{" \o json_members(d, 1) \o "}"

\* the number of backslashes right before offset i of s, from offset lo on
json_backslashes(s, lo, i) ==
  IF i = lo \/ CharAt(s, i - 1) # Backslash THEN 0
  ELSE i - (CHOOSE m \in lo..(i - 1) :
              /\ \A k \in m..(i - 1) : CharAt(s, k) = Backslash
              /\ m = lo \/ CharAt(s, m - 1) # Backslash)

\* the character at offset i of the body of a JSON string is the letter of an
\* escape: an odd number of backslashes precedes it
json_escaped(s, i) == json_backslashes(s, 0, i) % 2 = 1

\* the body of a JSON string is well formed: no bare quote or control
\* character, every backslash followed by the letter of an escape
json_body_ok(s) ==
  \A i \in 0..(Len(s) - 1) :
    IF json_escaped(s, i)
    THEN CharAt(s, i) \in {Quote, Backslash, "/", "n", "t"}
    ELSE /\ CharAt(s, i) \notin {Quote, "\n", "\t"}
         /\ CharAt(s, i) = Backslash => i + 1 < Len(s)

\* the characters at offsets lo..hi of the body, escapes decoded
RECURSIVE json_unescape(_, _, _)
json_unescape(s, lo, hi) ==
  IF lo > hi THEN ""
  ELSE IF lo < hi
  THEN json_unescape(s, lo, (lo + hi) \div 2) \o json_unescape(s, (lo + hi) \div 2 + 1, hi)
  ELSE IF json_escaped(s, lo)
  THEN (IF CharAt(s, lo) = "n" THEN "\n"
        ELSE IF CharAt(s, lo) = "t" THEN "\t" ELSE CharAt(s, lo))
  ELSE IF CharAt(s, lo) = Backslash THEN "" ELSE CharAt(s, lo)

\* 0-based offset of the first character at or after i that is no whitespace
json_skip(s, i) ==
  IF \E j \in i..(Len(s) - 1) : CharAt(s, j) \notin Space
  THEN CHOOSE j \in i..(Len(s) - 1) :
         /\ CharAt(s, j) \notin Space
         /\ \A k \in i..(j - 1) : CharAt(s, k) \in Space
  ELSE Len(s)

\* the quote at offset j closes the string that opens at offset i: an even
\* number of backslashes precedes it
json_closes(s, i, j) ==
  CharAt(s, j) = Quote /\ json_backslashes(s, i + 1, j) % 2 = 0

\* the string between the quotes at offsets i and j
json_between(s, i, j) ==
  CHOOSE v \in {[ok |-> json_body_ok(body), val |-> json_unescape(body, 0, Len(body) - 1),
                 next |-> j + 1] : body \in {SubSeq(s, i + 2, j)}} : TRUE

\* the string that opens at offset i and closes at the first of the offsets in
\* closing
json_first(s, i, closing) ==
  IF closing = {} THEN [ok |-> FALSE, val |-> "", next |-> i]
  ELSE json_between(s, i, CHOOSE j \in closing : \A k \in closing : j <= k)

\* the string that opens at offset i: its value and the offset after its closing quote
json_scan(s, i) ==
  IF i < Len(s) /\ CharAt(s, i) = Quote
  THEN CHOOSE v \in {json_first(s, i, closing) :
                       closing \in {{j \in (i + 1)..(Len(s) - 1) : json_closes(s, i, j)}}} : TRUE
  ELSE [ok |-> FALSE, val |-> "", next |-> i]

JSONDecodeError == [ok |-> FALSE, dict |-> <<>>]

\* d[key] = val of a dict
dict_set(d, key, val) ==
  IF \E j \in 1..Len(d) : d[j][1] = key
  THEN [j \in 1..Len(d) |-> IF d[j][1] = key THEN <<key, val>> ELSE d[j]]
  ELSE Append(d, <<key, val>>)

\* d.get(key, default)
dict_get(d, key, default) ==
  IF \E j \in 1..Len(d) : d[j][1] = key
  THEN d[CHOOSE j \in 1..Len(d) : d[j][1] = key][2]
  ELSE default

\* the members of an object from offset i on, i at the first quote of a member:
\* the key, the colon, the value, and what follows the value
RECURSIVE json_object_from(_, _, _)
json_after_value(s, d, after) ==
  IF after >= Len(s) THEN JSONDecodeError
  ELSE IF CharAt(s, after) = "}"
  THEN IF json_skip(s, after + 1) = Len(s) THEN [ok |-> TRUE, dict |-> d]
       ELSE JSONDecodeError
  ELSE IF CharAt(s, after) = ","
  THEN CHOOSE v \in {json_object_from(s, i, d) : i \in {json_skip(s, after + 1)}} : TRUE
  ELSE JSONDecodeError

json_value(s, d, key, val) ==
  IF ~val.ok THEN JSONDecodeError
  ELSE CHOOSE v \in {json_after_value(s, e, after) :
                       e \in {dict_set(d, key.val, val.val)},
                       after \in {json_skip(s, val.next)}} : TRUE

json_colon(s, d, key, colon) ==
  IF colon >= Len(s) \/ CharAt(s, colon) # ":" THEN JSONDecodeError
  ELSE CHOOSE v \in {json_value(s, d, key, val) :
                       val \in {json_scan(s, json_skip(s, colon + 1))}} : TRUE

json_key(s, d, key) ==
  IF ~key.ok THEN JSONDecodeError
  ELSE CHOOSE v \in {json_colon(s, d, key, colon) :
                       colon \in {json_skip(s, key.next)}} : TRUE

json_object_from(s, i, d) ==
  CHOOSE v \in {json_key(s, d, key) : key \in {json_scan(s, i)}} : TRUE

\* the document from the offset of its first character on
json_document(s, open) ==
  IF open >= Len(s) \/ CharAt(s, open) # "{" THEN JSONDecodeError
  ELSE CHOOSE v \in {IF first >= Len(s) THEN JSONDecodeError
                     ELSE IF CharAt(s, first) = "}"
                     THEN IF json_skip(s, first + 1) = Len(s)
                          THEN [ok |-> TRUE, dict |-> <<>>]
                          ELSE JSONDecodeError
                     ELSE json_object_from(s, first, <<>>) :
                       first \in {json_skip(s, open + 1)}} : TRUE

\* json.loads(s) for a document that is an object of strings; ok is FALSE where
\* json.loads raises JSONDecodeError
json_loads(s) ==
  CHOOSE v \in {json_document(t, open) : t \in {s}, open \in {json_skip(s, 0)}} : TRUE

(***************************************************************************)
(* The OCR records (ocr_service.py, app.py).  ocr_results is the table of  *)
(* models.OCRResult: row i has ocr_id i.  The Japanese messages are        *)
(* written in ASCII.                                                       *)
(***************************************************************************)
\* os.path.splitext(path)[1]: from the last dot of the last component on,
\* leading dots of the component not counted
splitext(path) ==
  LET slashes == {i \in 0..(Len(path) - 1) : CharAt(path, i) = "/"}
      base == IF slashes = {} THEN 0
              ELSE 1 + CHOOSE i \in slashes : \A k \in slashes : k <= i
      dots == {i \in base..(Len(path) - 1) :
                 /\ CharAt(path, i) = "."
                 /\ \E k \in base..(i - 1) : CharAt(path, k) # "."}
  IN  IF dots = {} THEN ""
      ELSE SubSeq(path, 1 + (CHOOSE i \in dots : \A k \in dots : k <= i), Len(path))

\* os.path.splitext(...)[1].lower() (ocr_service.py 32-33, app.py 124)
file_ext(path) == LowerStr(splitext(path))

\* app.py 146-151: the row upload_document creates
new_ocr_result(file_location, filename) ==
  [status         |-> "processing",
   raw_text       |-> "0",
   processed_data |-> json_dumps(<< <<"file_path", file_location>>,
                                    <<"original_filename", filename>> >>)]

\* a faulty update: a failure leaves the status as it was
update_keeps_status(ocr_results, ocr_id, raw_text_length, processed_data, status, error_message) ==
  IF ocr_id \in 1..Len(ocr_results)
  THEN [ocr_results EXCEPT ![ocr_id] =
          [status         |-> IF error_message # "" THEN @.status ELSE status,
           raw_text       |-> raw_text_length,
           processed_data |-> processed_data]]
  ELSE ocr_results

\* lines 84-112: update_ocr_result; error_message "" stands for None.  The
\* row is left as it was where json.loads raises (nothing is committed) and
\* where there is no row of that id (line 112)
update_ocr_result(ocr_results, ocr_id, raw_text_length, processed_data, status, error_message) ==
  IF ocr_id \in 1..Len(ocr_results)
  THEN IF error_message # ""
       THEN LET loaded == IF processed_data # "" /\ processed_data # "{}"
                          THEN json_loads(processed_data)
                          ELSE [ok |-> TRUE, dict |-> <<>>]
            IN  IF loaded.ok
                THEN [ocr_results EXCEPT ![ocr_id] =
                        [status         |-> status,
                         raw_text       |-> raw_text_length,
                         processed_data |->
                           json_dumps(dict_set(loaded.dict, "error", error_message))]]
                ELSE ocr_results
       ELSE [ocr_results EXCEPT ![ocr_id] =
               [status         |-> status,
                raw_text       |-> raw_text_length,
                processed_data |-> processed_data]]
  ELSE ocr_results

\* lines 44-46: the text of the pages of a PDF, page i (1-based) from the j-th on
RECURSIVE pdf_text(_, _)
pdf_text(pages, j) ==
  IF j > Len(pages) THEN ""
  ELSE "\n--- Page " \o IntToStr(j) \o " ---\n" \o pages[j] \o pdf_text(pages, j + 1)

\* lines 20-82: process_document(file_path, ocr_id, db).  ocr is what the
\* conversion and the recognition do with the file: they raise, or they give
\* the texts of the pages (of the one image for an image file).  The handler
\* of lines 80-82 is not entered: nothing else in the function raises while
\* the database accepts the update.
process_document(ocr_results, file_path, ocr_id, ocr) ==
  IF file_ext(file_path) = ".pdf"
  THEN IF ocr.raised
       THEN update_ocr_result(ocr_results, ocr_id, "", "{}", "failed",
                              "PDF error: " \o ocr.error)
       ELSE update_ocr_result(ocr_results, ocr_id,
                              IntToStr(Len(pdf_text(ocr.pages, 1))),
                              json_dumps(<< <<"file_path", file_path>>,
                                            <<"text_content", pdf_text(ocr.pages, 1)>> >>),
                              "completed", "")
  ELSE IF file_ext(file_path) \in {".png", ".jpg", ".jpeg"}
  THEN IF ocr.raised
       THEN update_ocr_result(ocr_results, ocr_id, "", "{}", "failed",
                              "image error: " \o ocr.error)
       ELSE update_ocr_result(ocr_results, ocr_id, IntToStr(Len(ocr.pages[1])),
                              json_dumps(<< <<"file_path", file_path>>,
                                            <<"text_content", ocr.pages[1]>> >>),
                              "completed", "")
  ELSE update_ocr_result(ocr_results, ocr_id, "", "{}", "failed",
                         "unsupported file format")

\* a faulty reader: the stored text itself where it cannot be parsed
stored_text_raw(ocr_results, ocr_data) ==
  IF ocr_data \in 1..Len(ocr_results)
  THEN IF json_loads(ocr_results[ocr_data].processed_data).ok
       THEN dict_get(json_loads(ocr_results[ocr_data].processed_data).dict, "text_content", "")
       ELSE ocr_results[ocr_data].processed_data
  ELSE ""

\* lines 122-137: how the stored document of the row decodes: "" where line
\* 128 skips the row (no row, no data), else "ok" or "JSONDecodeError"
stored_decode(ocr_results, ocr_data) ==
  IF ocr_data \in 1..Len(ocr_results) /\ ocr_results[ocr_data].processed_data # ""
  THEN IF json_loads(ocr_results[ocr_data].processed_data).ok THEN "ok"
       ELSE "JSONDecodeError"
  ELSE ""

\* lines 120-137: ocr_text of extract_po_data(ocr_data) for an integer
\* ocr_data; the JSONDecodeError is caught and logged (133-134)
stored_text(ocr_results, ocr_data) ==
  IF stored_decode(ocr_results, ocr_data) = "ok"
  THEN dict_get(json_loads(ocr_results[ocr_data].processed_data).dict, "text_content", "")
  ELSE ""

(***************************************************************************)
(* Bounds and input domains.                                               *)
(***************************************************************************)
MaxLines    == 2   \* lines of a text drawn from Vocabulary
MaxProducts == 2   \* line items of a record handed to the validator directly
MaxCalls    == 2   \* calls that run at the same time
MaxValidate == 2   \* times one record is handed to the validator
MaxRecords  == 1   \* rows of a table

Calls == 1..MaxCalls

\* the lines of Scenario A
ScenarioALines == <<"Purchase Order: 12345", "ABC Company Foo Corp", "Ship to: Tokyo",
                    "Unit Price: $10.50", "EXT Price: 100.00">>

\* lines that carry the signatures and labels the extractors look for; the
\* bare "Purchase Order" is last, where the $ of its signature can match
Vocabulary ==
  <<"Purchase Order: 12345", "ABC Company Foo Corp", "Ship to: Tokyo",
    "(Buyer's Info) Del Date: 5/1",
    "Supplier: Acme Buyer: Zen",
    "///ORDER CONFIMATION/// TIME OF SHIPMENT PORT OF LOADING",
    "Order No. 77 Grade A", "Payment Terms: Net 30",
    "random prose", "paid in EUR", "Product A 10 kg US$2.00 US$20.00",
    "Purchase Order">>

\* the lines numbered in s, from the j-th on, joined by newlines
RECURSIVE TextOf(_, _)
TextOf(s, j) ==
  IF j > Len(Vocabulary) THEN ""
  ELSE IF j \in s
       THEN Vocabulary[j] \o (IF \E k \in s : k > j THEN "\n" ELSE "") \o TextOf(s, j + 1)
       ELSE TextOf(s, j + 1)

\* the texts of at most n lines of the vocabulary, in the vocabulary's order
TextsOf(n) ==
  {TextOf(s, 1) : s \in {s \in SUBSET (1..Len(Vocabulary)) : Cardinality(s) <= n}}

\* lines j.. of a sequence of lines, joined by newlines
RECURSIVE JoinLines(_, _)
JoinLines(lines, j) ==
  IF j > Len(lines) THEN ""
  ELSE lines[j] \o (IF j < Len(lines) THEN "\n" ELSE "") \o JoinLines(lines, j + 1)

\* Scenario A with its lines in each rotation of their order
ScenarioATexts ==
  {JoinLines([i \in 1..5 |-> ScenarioALines[((i + k - 1) % 5) + 1]], 1) : k \in 0..4}

Texts == TextsOf(MaxLines) \cup ScenarioATexts

\* texts of the calls that run at the same time
ConcTexts == {"(Buyer's Info) ABC Company", "Supplier: Acme\nPurchase Order",
              "///ORDER CONFIMATION/// Order No. 7", "Ship to: Tokyo"}

\* config.py 29
UPLOAD_FOLDER == "/tmp"

\* names of uploaded files, and paths handed to process_document directly
UploadNames == {"po.pdf", "scan.PNG", "notes.txt"}
FilePaths == {"/tmp/notes.txt", "/tmp/v1.2/scan.JPG"}

\* the texts the recognition reads on the pages of a file
PageTexts == {<<>>, <<"Ship to: Tokyo">>,
              <<"(Buyer's Info) ABC Company", "Supplier: Acme\nPurchase Order">>}

\* rows another client of the database wrote
StoredRows ==
  {[status |-> "completed", raw_text |-> "0", processed_data |-> d] :
     d \in {"", "not json", "{\"text_content\": \"Ship to: Tokyo\"",
            "{\"file_path\": \"/tmp/po.pdf\"}"}
           \cup {json_dumps(<< <<"file_path", "/tmp/po.pdf">>, <<"text_content", t>> >>) :
                   t \in ConcTexts}}

\* lines that carry the labels of the product fields of format1 and format3
ExtractorVocabulary ==
  <<"Item: Widget", "Quantity: 1,000 kg", "Unit Price: $10.50", "Amount: 100.00",
    "Grade A1", "Qt'y (mt) 12.5", "paid in EUR", "Total Amount 500">>

\* the lines of voc numbered in s, from the j-th on, joined by newlines
RECURSIVE LinesOf(_, _, _)
LinesOf(voc, s, j) ==
  IF j > Len(voc) THEN ""
  ELSE IF j \in s
       THEN voc[j] \o (IF \E k \in s : k > j THEN "\n" ELSE "") \o LinesOf(voc, s, j + 1)
       ELSE LinesOf(voc, s, j + 1)

\* the texts of at most n lines of voc, in the order of voc; the empty text is one
SubTexts(voc, n) ==
  {LinesOf(voc, s, 1) : s \in {s \in SUBSET (1..Len(voc)) : Cardinality(s) <= n}}

ExtractorTexts == SubTexts(ExtractorVocabulary, MaxLines)

ExtractorNames == {"format1", "format2", "format3", "generic"}

SampleItems ==
  {LineItem("Widget", "1,000 kg", "US$ 5.50", "$5,500.00"),
   LineItem("", "", "", ""),
   LineItem("Grade A", "12.5", "1,200.00", "USD 15,000"),
   LineItem("Bolt", "5 MT x", "USD", "9 mt"),
   LineItem("Unknown Product", "", "", "")}

RECURSIVE ProductLists(_)
ProductLists(n) ==
  IF n = 0 THEN {<<>>}
  ELSE ProductLists(n - 1) \cup
       {Append(ps, item) : ps \in ProductLists(n - 1), item \in SampleItems}

Orders ==
  [customer : {"", "ACME"}, poNumber : {"", "12345"}, currency : {"USD"},
   products : ProductLists(MaxProducts),
   totalAmount : {"", "US$ 50,000.00", "1,000"},
   paymentTerms : {""}, terms : {""}, destination : {"Tokyo"}]

\* lines with line items: a table row, a section in two lines, quantities and
\* prices before the names (for the positional pairing), and single fields
ItemVocabulary ==
  <<"X1 Product A 10 kg US$2.00 US$20.00", "Product B", "5 kg US$1.00 US$5.00 US$9.99",
    "Qty: 7 kg US$3.00 US$21.00 9 kg US$4.00 US$36.00", "Product C Product D",
    "Product e 5 kg 2.00 10.00", "Quantity: 4 kg", "Unit Price: $10.50", "Item:">>

ItemTexts == SubTexts(ItemVocabulary, MaxLines)

\* the extractors that can return several line items
ItemExtractors == {"format2", "generic"}

\* lines with the labels of the destination and payment patterns; a label with
\* nothing after it is last, where the $ of its pattern can match
FieldVocabulary ==
  <<"Ship to: Tokyo", "Destination: Osaka", "Delivery Address: : Kobe :",
    "Payment Terms: Net 30", "Ship to: :", "Ship to:">>

FieldTexts == SubTexts(FieldVocabulary, MaxLines)

\* pattern lists the extractors hand to extract_field_by_regex
FieldPatternLists ==
  {format1_patterns.destination, format1_patterns.paymentTerms, format3_patterns.terms}

\* default values: the one of the signature, and one that is not empty
FieldDefaults == {"", "N/A"}

\* the records two callers hand to analyze_extraction_quality
PairItems ==
  {LineItem("Widget", "1,000", "5.50", "5,500.00"),
   LineItem("Bolt", "", "2.00", ""),
   LineItem("Unknown Product", "", "", "")}

PairOrders ==
  [customer : {"", "ACME"}, poNumber : {"12345"}, currency : {"USD"},
   products : UNION {[1..n -> PairItems] : n \in 0..MaxProducts},
   totalAmount : {"1,000"},
   paymentTerms : {""}, terms : {""}, destination : {"Tokyo"}]

\* the two callers of a pair
Pair == {1, 2}

\* the dict every extractor starts from (lines 99-108)
EmptyOrder ==
  [customer |-> "", poNumber |-> "", currency |-> "", products |-> <<>>,
   totalAmount |-> "", paymentTerms |-> "", terms |-> "", destination |-> ""]

NoMatches == [f \in {"format1", "format2", "format3"} |-> {}]
NoQuality == [completeness |-> 0, confidence |-> 0, missing_fields |-> <<>>,
              recommendation |-> ""]

\* a response: the status code, and the ocrId (in digits), status and data of
\* its body; status_code 0: no response yet
Response(status_code, ocrId, status, data) ==
  [status_code |-> status_code, ocrId |-> ocrId, status |-> status, data |-> data]
NoResponse == Response(0, "", "", EmptyOrder)

\* the arguments of a request about a purchase order: none yet
NoRequest == [po_id |-> 0, status |-> "", shipping_data |-> <<>>]

\* no call of process_document has ended
NoRun == [file_path |-> "", ocr_id |-> 0, raised |-> FALSE, found |-> FALSE]

(***************************************************************************)
(* The state: for each call, where it stands and its local variables.      *)
(***************************************************************************)
VARIABLES
  pc,          \* "idle", "identify", "dispatch", "validate", "done", "assessed",
               \* "returned"
  op,          \* the function the caller called
  ocr_text,    \* the argument of extract_po_data
  matches,     \* the features re.search found (line 57 of ocr_extractors.py)
  po_format,   \* po_format, confidence of extract_po_data (line 143)
  confidence,
  extractor,   \* the branch of lines 147-158 that ran
  extracted,   \* what the extractor returned
  given,       \* the record as the validator last received it
  result,      \* the record: the dict the validator changes in place
  nvalid,      \* how many times the validator ran on the record
  quality,     \* what analyze_extraction_quality returned
  patterns,      \* the arguments of extract_field_by_regex besides ocr_text
  default_value,
  value,         \* what extract_field_by_regex returned
  ocr_results,   \* the rows of models.OCRResult, row i with ocr_id i
  tasks,         \* the calls of process_document that have not run yet
  processed,     \* the call of process_document that ended last: its arguments,
                 \* whether the recognition raised, whether line 102 found the row
  ocr_data,      \* the integer argument of extract_po_data (0: a text was given)
  decode,        \* how the stored document decoded (lines 128-134)
  response,      \* what a request handler of app.py answered
  purchase_orders,     \* the rows of models.PurchaseOrder, row i with po_id i
  shipping_schedules,  \* the rows of models.ShippingSchedule, row i with id i
  po_request           \* the arguments of a request about a purchase order

vars == <<pc, op, ocr_text, matches, po_format, confidence, extractor, extracted,
          given, result, nvalid, quality, patterns, default_value, value,
          ocr_results, tasks, processed, ocr_data, decode, response, purchase_orders,
          shipping_schedules, po_request>>

\* the frame of a call of extract_field_by_regex
field_frame == <<patterns, default_value, value>>

\* the tables of the database
tables == <<ocr_results, tasks, processed, purchase_orders, shipping_schedules>>

\* what the request handlers of app.py and the reader of a stored row keep
app_frame == <<tables, ocr_data, decode, response, po_request>>

\* a faulty core: po_format and confidence kept in one module-level place
shared_frame(c) == 1

\* the locals of an invocation live in the frame of that invocation
frame(c) == c

Init ==
  /\ pc = [c \in Calls |-> "idle"]
  /\ op = [c \in Calls |-> ""]
  /\ ocr_text = [c \in Calls |-> ""]
  /\ matches = [c \in Calls |-> NoMatches]
  /\ po_format = [c \in Calls |-> ""]
  /\ confidence = [c \in Calls |-> Zero]
  /\ extractor = [c \in Calls |-> ""]
  /\ extracted = [c \in Calls |-> EmptyOrder]
  /\ given = [c \in Calls |-> EmptyOrder]
  /\ result = [c \in Calls |-> EmptyOrder]
  /\ nvalid = [c \in Calls |-> 0]
  /\ quality = [c \in Calls |-> NoQuality]
  /\ patterns = [c \in Calls |-> <<>>]
  /\ default_value = [c \in Calls |-> ""]
  /\ value = [c \in Calls |-> ""]
  /\ ocr_results = <<>>
  /\ tasks = <<>>
  /\ processed = NoRun
  /\ ocr_data = [c \in Calls |-> 0]
  /\ decode = [c \in Calls |-> ""]
  /\ response = [c \in Calls |-> NoResponse]
  /\ purchase_orders = <<>>
  /\ shipping_schedules = <<>>
  /\ po_request = [c \in Calls |-> NoRequest]

\* a caller calls extract_po_data(text)
call_extract_po_data(c, text) ==
  /\ pc[c] = "idle"
  /\ pc' = [pc EXCEPT ![c] = "identify"]
  /\ op' = [op EXCEPT ![c] = "extract_po_data"]
  /\ ocr_text' = [ocr_text EXCEPT ![c] = text]
  /\ UNCHANGED <<app_frame, field_frame, matches, po_format, confidence, extractor, extracted, given, result,
                 nvalid, quality>>

\* line 143: po_format, confidence = identify_po_format(ocr_text)
identify(c) ==
  /\ pc[c] = "identify"
  /\ LET hits == feature_matches(ocr_text[c])
         id == identify_from(format_scores(hits))
     IN  /\ matches' = [matches EXCEPT ![c] = hits]
         /\ po_format' = [po_format EXCEPT ![frame(c)] = id.format]
         /\ confidence' = [confidence EXCEPT ![frame(c)] = id.confidence]
  /\ pc' = [pc EXCEPT ![c] = "dispatch"]
  /\ UNCHANGED <<app_frame, field_frame, op, ocr_text, extractor, extracted, given, result, nvalid, quality>>

\* lines 147-158: the extractor of the chosen branch runs
run_branch(c, branch) ==
  /\ pc[c] = "dispatch"
  /\ extracted' = [extracted EXCEPT ![c] = run_extractor(branch, ocr_text[c])]
  /\ result' = [result EXCEPT ![c] = extracted'[c]]
  /\ extractor' = [extractor EXCEPT ![c] = branch]
  /\ pc' = [pc EXCEPT ![c] = "validate"]
  /\ UNCHANGED <<app_frame, field_frame, op, ocr_text, matches, po_format, confidence, given, nvalid, quality>>

\* line 147
dispatch_format1(c) ==
  /\ dispatch(po_format[frame(c)], confidence[frame(c)]) = "format1"
  /\ run_branch(c, "format1")

\* line 150
dispatch_format2(c) ==
  /\ dispatch(po_format[frame(c)], confidence[frame(c)]) = "format2"
  /\ run_branch(c, "format2")

\* line 153
dispatch_format3(c) ==
  /\ dispatch(po_format[frame(c)], confidence[frame(c)]) = "format3"
  /\ run_branch(c, "format3")

\* line 156
dispatch_generic(c) ==
  /\ dispatch(po_format[frame(c)], confidence[frame(c)]) = "generic"
  /\ run_branch(c, "generic")

\* validate_and_clean_result(result) runs on the record
run_validator(c) ==
  /\ given' = [given EXCEPT ![c] = result[c]]
  /\ result' = [result EXCEPT ![c] = validate_and_clean_result(result[c])]
  /\ nvalid' = [nvalid EXCEPT ![c] = nvalid[c] + 1]
  /\ pc' = [pc EXCEPT ![c] = "done"]
  /\ UNCHANGED <<app_frame, field_frame, op, ocr_text, matches, po_format, confidence, extractor, extracted,
                 quality>>

\* line 161, and the validator called on a record directly
validate(c) ==
  /\ pc[c] = "validate"
  /\ run_validator(c)

\* the caller hands the validated record to the validator once more
validate_again(c) ==
  /\ pc[c] = "done"
  /\ nvalid[c] < MaxValidate
  /\ run_validator(c)

\* a caller calls validate_and_clean_result(order) on a record of its own
call_validate(c, order) ==
  /\ pc[c] = "idle"
  /\ pc' = [pc EXCEPT ![c] = "validate"]
  /\ op' = [op EXCEPT ![c] = "validate_and_clean_result"]
  /\ result' = [result EXCEPT ![c] = order]
  /\ UNCHANGED <<app_frame, field_frame, ocr_text, matches, po_format, confidence, extractor, extracted, given,
                 nvalid, quality>>

\* the caller hands the validated record to analyze_extraction_quality
analyze(c) ==
  /\ pc[c] = "done"
  /\ quality' = [quality EXCEPT ![c] = analyze_extraction_quality(result[c])]
  /\ pc' = [pc EXCEPT ![c] = "assessed"]
  /\ UNCHANGED <<app_frame, field_frame, op, ocr_text, matches, po_format, confidence, extractor, extracted,
                 given, result, nvalid>>

\* a caller calls analyze_extraction_quality(order) on a record of its own
call_analyze(c, order) ==
  /\ pc[c] = "idle"
  /\ pc' = [pc EXCEPT ![c] = "assessed"]
  /\ op' = [op EXCEPT ![c] = "analyze_extraction_quality"]
  /\ result' = [result EXCEPT ![c] = order]
  /\ quality' = [quality EXCEPT ![c] = analyze_extraction_quality(order)]
  /\ UNCHANGED <<app_frame, field_frame, ocr_text, matches, po_format, confidence, extractor, extracted, given,
                 nvalid>>

\* test_ocr_format.py, lines 91-93: result = extractor(ocr_text), for each of the
\* four extractors; validate (line 94) and analyze (line 95) follow
call_extractor(c, name, text) ==
  /\ pc[c] = "idle"
  /\ pc' = [pc EXCEPT ![c] = "validate"]
  /\ op' = [op EXCEPT ![c] = "test_all_extractors"]
  /\ ocr_text' = [ocr_text EXCEPT ![c] = text]
  /\ extractor' = [extractor EXCEPT ![c] = name]
  /\ extracted' = [extracted EXCEPT ![c] = run_extractor(name, text)]
  /\ result' = [result EXCEPT ![c] = extracted'[c]]
  /\ UNCHANGED <<app_frame, field_frame, matches, po_format, confidence, given, nvalid, quality>>

\* a caller calls extract_field_by_regex(ocr_text, patterns, default_value)
call_extract_field(c, text, pats, default) ==
  /\ pc[c] = "idle"
  /\ pc' = [pc EXCEPT ![c] = "returned"]
  /\ op' = [op EXCEPT ![c] = "extract_field_by_regex"]
  /\ ocr_text' = [ocr_text EXCEPT ![c] = text]
  /\ patterns' = [patterns EXCEPT ![c] = pats]
  /\ default_value' = [default_value EXCEPT ![c] = default]
  /\ value' = [value EXCEPT ![c] = extract_field_by_regex(text, pats, default)]
  /\ UNCHANGED <<app_frame, matches, po_format, confidence, extractor, extracted, given, result,
                 nvalid, quality>>

\* what the recognition makes of a file: it raises, or it reads the pages
OcrOutcomes ==
  {[raised |-> TRUE, pages |-> <<>>, error |-> "cannot read"]}
  \cup {[raised |-> FALSE, pages |-> ps, error |-> ""] : ps \in PageTexts}

\* app.py 110-197: upload_document(file); the file is saved under a new name
\* in the upload folder
upload_document(c, filename) ==
  /\ pc[c] = "idle"
  /\ Len(ocr_results) < MaxRecords
  /\ pc' = [pc EXCEPT ![c] = "returned"]
  /\ op' = [op EXCEPT ![c] = "upload_document"]
  /\ IF file_ext(filename) \notin {".pdf", ".png", ".jpg", ".jpeg"}
     THEN /\ response' = [response EXCEPT ![c] = Response(400, "", "", EmptyOrder)]
          /\ UNCHANGED tables
     ELSE LET ocr_id == Len(ocr_results) + 1
              file_location == UPLOAD_FOLDER \o "/f" \o IntToStr(ocr_id) \o file_ext(filename)
          IN  /\ ocr_results' = Append(ocr_results, new_ocr_result(file_location, filename))
              /\ tasks' = Append(tasks, [file_path |-> file_location, ocr_id |-> ocr_id])
              /\ response' = [response EXCEPT ![c] =
                                Response(200, IntToStr(ocr_id), "processing", EmptyOrder)]
              /\ UNCHANGED <<processed, purchase_orders, shipping_schedules>>
  /\ UNCHANGED <<field_frame, ocr_text, matches, po_format, confidence, extractor, extracted,
                 given, result, nvalid, quality, ocr_data, decode, po_request>>

\* a recognition of an image reads one page
Readable(file_path, ocr) ==
  file_ext(file_path) \in {".png", ".jpg", ".jpeg"} /\ ~ocr.raised => Len(ocr.pages) = 1

\* ocr_service.py 20-82: a caller calls process_document(file_path, ocr_id, db) itself
call_process_document(file_path, ocr_id, ocr) ==
  /\ Readable(file_path, ocr)
  /\ ocr_results' = process_document(ocr_results, file_path, ocr_id, ocr)
  /\ processed' = [file_path |-> file_path, ocr_id |-> ocr_id, raised |-> ocr.raised,
                   found |-> ocr_id \in 1..Len(ocr_results)]
  /\ UNCHANGED <<field_frame, pc, op, ocr_text, matches, po_format, confidence, extractor,
                 extracted, given, result, nvalid, quality, ocr_data, decode, response, po_request,
                 tasks, purchase_orders, shipping_schedules>>

\* app.py 168-175: the k-th of the calls of process_document added as
\* background tasks runs
run_process_document(k, ocr) ==
  /\ k \in 1..Len(tasks)
  /\ Readable(tasks[k].file_path, ocr)
  /\ ocr_results' = process_document(ocr_results, tasks[k].file_path, tasks[k].ocr_id, ocr)
  /\ processed' = [file_path |-> tasks[k].file_path, ocr_id |-> tasks[k].ocr_id,
                   raised |-> ocr.raised, found |-> tasks[k].ocr_id \in 1..Len(ocr_results)]
  /\ tasks' = [j \in 1..(Len(tasks) - 1) |-> IF j < k THEN tasks[j] ELSE tasks[j + 1]]
  /\ UNCHANGED <<field_frame, pc, op, ocr_text, matches, po_format, confidence, extractor,
                 extracted, given, result, nvalid, quality, ocr_data, decode, response, po_request,
                 purchase_orders, shipping_schedules>>

\* another client of the database writes a row of ocr_results (models.py 78-90:
\* processed_data is free text)
insert_ocr_result(row) ==
  /\ Len(ocr_results) < MaxRecords
  /\ ocr_results' = Append(ocr_results, row)
  /\ UNCHANGED <<field_frame, pc, op, ocr_text, matches, po_format, confidence, extractor,
                 extracted, given, result, nvalid, quality, ocr_data, decode, response, po_request,
                 tasks, processed, purchase_orders, shipping_schedules>>

\* ocr_service.py 120-137: a caller calls extract_po_data(ocr_id) with an integer
call_extract_po_data_id(c, ocr_id) ==
  /\ pc[c] = "idle"
  /\ pc' = [pc EXCEPT ![c] = "identify"]
  /\ op' = [op EXCEPT ![c] = "extract_po_data"]
  /\ ocr_data' = [ocr_data EXCEPT ![c] = ocr_id]
  /\ decode' = [decode EXCEPT ![c] = stored_decode(ocr_results, ocr_id)]
  /\ ocr_text' = [ocr_text EXCEPT ![c] = stored_text(ocr_results, ocr_id)]
  /\ UNCHANGED <<field_frame, tables, matches, po_format, confidence, extractor, extracted,
                 given, result, nvalid, quality, response, po_request>>

\* app.py 213-233: extract_order_data(ocr_id); the handler runs without a
\* suspension point, extract_po_data(ocr_id) included
extract_order_data(c, ocr_id) ==
  /\ pc[c] = "idle"
  /\ pc' = [pc EXCEPT ![c] = "returned"]
  /\ op' = [op EXCEPT ![c] = "extract_order_data"]
  /\ ocr_data' = [ocr_data EXCEPT ![c] = ocr_id]
  /\ IF ocr_id \notin 1..Len(ocr_results)
     THEN /\ response' = [response EXCEPT ![c] = Response(404, "", "", EmptyOrder)]
          /\ UNCHANGED <<decode, ocr_text, result>>
     ELSE IF ocr_results[ocr_id].status # "completed"
     THEN /\ response' = [response EXCEPT ![c] = Response(400, "", "", EmptyOrder)]
          /\ UNCHANGED <<decode, ocr_text, result>>
     ELSE /\ decode' = [decode EXCEPT ![c] = stored_decode(ocr_results, ocr_id)]
          /\ ocr_text' = [ocr_text EXCEPT ![c] = stored_text(ocr_results, ocr_id)]
          /\ result' = [result EXCEPT ![c] = extract_po_data(ocr_text'[c])]
          /\ response' = [response EXCEPT ![c] =
                            Response(200, IntToStr(ocr_id), "", result'[c])]
  /\ UNCHANGED <<field_frame, tables, matches, po_format, confidence, extractor, extracted,
                 given, nvalid, quality, po_request>>

(***************************************************************************)
(* The purchase orders (app.py).  The four statuses are written in Latin   *)
(* letters: tehai-mae (before arrangement), tehai-chu (being arranged),    *)
(* tehai-zumi (arranged), keijo-zumi (booked to the accounts).             *)
(***************************************************************************)
TehaiMae  == "tehai-mae"
TehaiChu  == "tehai-chu"
TehaiZumi == "tehai-zumi"
KeijoZumi == "keijo-zumi"

\* app.py 440
valid_statuses == <<TehaiMae, TehaiChu, TehaiZumi, KeijoZumi>>

\* a faulty handler: only the list of statuses is checked
update_rejected_unlisted(po_status, status) ==
  status \notin {valid_statuses[i] : i \in 1..Len(valid_statuses)}

\* app.py 441-448: the two checks of update_po_status that answer 400
update_rejected(po_status, status) ==
  \/ status \notin {valid_statuses[i] : i \in 1..Len(valid_statuses)}
  \/ po_status = KeijoZumi /\ status # KeijoZumi

\* app.py 566-567: the status add_shipping_info leaves
booked_status(po_status, booking_number) ==
  IF booking_number # "" /\ po_status = TehaiChu THEN TehaiZumi ELSE po_status

\* app.py 537: the first shipping row of the purchase order, 0 when it has none
shipping_of(rows, po_id) ==
  IF \E k \in 1..Len(rows) : rows[k].po_id = po_id
  THEN CHOOSE k \in 1..Len(rows) :
         /\ rows[k].po_id = po_id
         /\ \A j \in 1..(k - 1) : rows[j].po_id # po_id
  ELSE 0

\* app.py 539-563: the shipping rows after the row of the purchase order is
\* created from, or updated by, shipping_data
shipping_rows(rows, po_id, shipping_data) ==
  LET k == shipping_of(rows, po_id)
  IN  IF k = 0
      THEN Append(rows, [po_id |-> po_id,
                         booking_number |-> dict_get(shipping_data, "booking_number", "")])
      ELSE [rows EXCEPT ![k].booking_number =
              dict_get(shipping_data, "booking_number", rows[k].booking_number)]

\* models.py 69: booking_number is unique
booking_unique(rows) ==
  \A j, k \in 1..Len(rows) : rows[j].booking_number = rows[k].booking_number => j = k

\* the purchase-order numbers, statuses and shipping data of the requests
PoNumbers == {"PO-1", "PO-2"}
StatusRequests == {TehaiMae, TehaiChu, TehaiZumi, KeijoZumi, "cancelled"}
ShippingData ==
  {<<>>, <<<<"booking_number", "">>>>, <<<<"booking_number", "BK-1">>>>,
   <<<<"shipping_company", "NYK">>, <<"booking_number", "BK-2">>>>}

\* what the requests about purchase orders leave alone
po_frame == <<field_frame, ocr_text, matches, po_format, confidence, extractor, extracted,
              given, result, nvalid, quality, ocr_data, decode, ocr_results, tasks,
              processed>>

\* app.py 236-286: register_po(po_data); po_number is unique (models.py 30),
\* and a failing commit is answered 500 (lines 284-286)
register_po(c, po_number) ==
  /\ pc[c] = "idle"
  /\ Len(purchase_orders) < MaxRecords
  /\ pc' = [pc EXCEPT ![c] = "returned"]
  /\ op' = [op EXCEPT ![c] = "register_po"]
  /\ po_request' = [po_request EXCEPT ![c] = NoRequest]
  /\ IF \E i \in 1..Len(purchase_orders) : purchase_orders[i].po_number = po_number
     THEN /\ response' = [response EXCEPT ![c] = Response(500, "", "", EmptyOrder)]
          /\ UNCHANGED purchase_orders
     ELSE /\ purchase_orders' =
               Append(purchase_orders, [po_number |-> po_number, status |-> TehaiMae])
          /\ response' = [response EXCEPT ![c] = Response(200, "", "", EmptyOrder)]
  /\ UNCHANGED <<po_frame, shipping_schedules>>

\* app.py 426-464: update_po_status(po_id, status_data)
update_po_status(c, po_id, status) ==
  /\ pc[c] = "idle"
  /\ pc' = [pc EXCEPT ![c] = "returned"]
  /\ op' = [op EXCEPT ![c] = "update_po_status"]
  /\ po_request' = [po_request EXCEPT ![c] =
                      [po_id |-> po_id, status |-> status, shipping_data |-> <<>>]]
  /\ IF po_id \notin 1..Len(purchase_orders)
     THEN /\ response' = [response EXCEPT ![c] = Response(404, "", "", EmptyOrder)]
          /\ UNCHANGED purchase_orders
     ELSE IF update_rejected(purchase_orders[po_id].status, status)
     THEN /\ response' = [response EXCEPT ![c] = Response(400, "", "", EmptyOrder)]
          /\ UNCHANGED purchase_orders
     ELSE /\ purchase_orders' = [purchase_orders EXCEPT ![po_id].status = status]
          /\ response' = [response EXCEPT ![c] = Response(200, "", status, EmptyOrder)]
  /\ UNCHANGED <<po_frame, shipping_schedules>>

\* app.py 522-581: add_shipping_info(po_id, shipping_data); a commit that
\* would store one booking number twice fails, and the request ends with 500
add_shipping_info(c, po_id, shipping_data) ==
  /\ pc[c] = "idle"
  /\ pc' = [pc EXCEPT ![c] = "returned"]
  /\ op' = [op EXCEPT ![c] = "add_shipping_info"]
  /\ po_request' = [po_request EXCEPT ![c] =
                      [po_id |-> po_id, status |-> "", shipping_data |-> shipping_data]]
  /\ IF po_id \notin 1..Len(purchase_orders)
     THEN /\ response' = [response EXCEPT ![c] = Response(404, "", "", EmptyOrder)]
          /\ UNCHANGED <<purchase_orders, shipping_schedules>>
     ELSE LET rows == shipping_rows(shipping_schedules, po_id, shipping_data)
              shipping_info == rows[shipping_of(rows, po_id)]
          IN  IF ~booking_unique(rows)
              THEN /\ response' = [response EXCEPT ![c] = Response(500, "", "", EmptyOrder)]
                   /\ UNCHANGED <<purchase_orders, shipping_schedules>>
              ELSE /\ shipping_schedules' = rows
                   /\ purchase_orders' =
                        [purchase_orders EXCEPT ![po_id].status =
                           booked_status(@, shipping_info.booking_number)]
                   /\ response' = [response EXCEPT ![c] = Response(200, "", "", EmptyOrder)]
  /\ UNCHANGED po_frame

\* the caller is done with the record
finish(c) ==
  /\ pc[c] \in {"done", "assessed", "returned"}
  /\ pc' = [pc EXCEPT ![c] = "idle"]
  /\ op' = [op EXCEPT ![c] = ""]
  /\ ocr_text' = [ocr_text EXCEPT ![c] = ""]
  /\ matches' = [matches EXCEPT ![c] = NoMatches]
  /\ po_format' = [po_format EXCEPT ![frame(c)] = ""]
  /\ confidence' = [confidence EXCEPT ![frame(c)] = Zero]
  /\ extractor' = [extractor EXCEPT ![c] = ""]
  /\ extracted' = [extracted EXCEPT ![c] = EmptyOrder]
  /\ given' = [given EXCEPT ![c] = EmptyOrder]
  /\ result' = [result EXCEPT ![c] = EmptyOrder]
  /\ nvalid' = [nvalid EXCEPT ![c] = 0]
  /\ quality' = [quality EXCEPT ![c] = NoQuality]
  /\ patterns' = [patterns EXCEPT ![c] = <<>>]
  /\ default_value' = [default_value EXCEPT ![c] = ""]
  /\ value' = [value EXCEPT ![c] = ""]
  /\ ocr_data' = [ocr_data EXCEPT ![c] = 0]
  /\ decode' = [decode EXCEPT ![c] = ""]
  /\ response' = [response EXCEPT ![c] = NoResponse]
  /\ po_request' = [po_request EXCEPT ![c] = NoRequest]
  /\ UNCHANGED tables

\* one caller at a time, any text and any record
Next ==
  \/ \E text \in Texts : call_extract_po_data(1, text)
  \/ identify(1)
  \/ dispatch_format1(1)
  \/ dispatch_format2(1)
  \/ dispatch_format3(1)
  \/ dispatch_generic(1)
  \/ validate(1)
  \/ validate_again(1)
  \/ \E order \in Orders : call_validate(1, order)
  \/ analyze(1)
  \/ \E order \in Orders : call_analyze(1, order)
  \/ finish(1)

Spec == Init /\ [][Next]_vars

\* extract_po_data called by several callers at the same time
ConcNext ==
  \E c \in Calls :
    \/ \E text \in ConcTexts : call_extract_po_data(c, text)
    \/ identify(c)
    \/ dispatch_format1(c)
    \/ dispatch_format2(c)
    \/ dispatch_format3(c)
    \/ dispatch_generic(c)
    \/ validate(c)
    \/ finish(c)

ConcSpec == Init /\ [][ConcNext]_vars

\* the requests about purchase orders, one at a time
PoNext ==
  \/ \E po_number \in PoNumbers : register_po(1, po_number)
  \/ \E po_id \in 1..(MaxRecords + 1), status \in StatusRequests :
       update_po_status(1, po_id, status)
  \/ \E po_id \in 1..(MaxRecords + 1), shipping_data \in ShippingData :
       add_shipping_info(1, po_id, shipping_data)
  \/ finish(1)

PoSpec == Init /\ [][PoNext]_vars

\* test_all_extractors: every extractor on every text, then validator and analyzer
ExtractorNext ==
  \/ \E name \in ExtractorNames, text \in ExtractorTexts : call_extractor(1, name, text)
  \/ validate(1)
  \/ analyze(1)
  \/ finish(1)

ExtractorSpec == Init /\ [][ExtractorNext]_vars

\* the extractors of several line items on texts with line items
ItemNext ==
  \/ \E name \in ItemExtractors, text \in ItemTexts : call_extractor(1, name, text)
  \/ validate(1)
  \/ analyze(1)
  \/ finish(1)

ItemSpec == Init /\ [][ItemNext]_vars

\* the OCR records: uploads, the processing in the background, and the requests
\* for the extracted data
OcrNext ==
  \/ \E filename \in UploadNames : upload_document(1, filename)
  \/ \E file_path \in FilePaths, ocr_id \in 1..MaxRecords, ocr \in OcrOutcomes :
       call_process_document(file_path, ocr_id, ocr)
  \/ \E k \in 1..MaxRecords, ocr \in OcrOutcomes : run_process_document(k, ocr)
  \/ \E ocr_id \in 1..(MaxRecords + 1) : extract_order_data(1, ocr_id)
  \/ finish(1)

OcrSpec == Init /\ [][OcrNext]_vars

\* extract_po_data(ocr_id) on the rows of the table, whoever wrote them
StoredNext ==
  \/ \E row \in StoredRows : insert_ocr_result(row)
  \/ \E ocr_id \in 1..(MaxRecords + 1) : call_extract_po_data_id(1, ocr_id)
  \/ identify(1)
  \/ dispatch_format1(1)
  \/ dispatch_format2(1)
  \/ dispatch_format3(1)
  \/ dispatch_generic(1)
  \/ validate(1)
  \/ finish(1)

StoredSpec == Init /\ [][StoredNext]_vars

\* extract_field_by_regex called on a text with a pattern list and a default
FieldNext ==
  \/ \E text \in FieldTexts, pats \in FieldPatternLists, default \in FieldDefaults :
       call_extract_field(1, text, pats, default)
  \/ finish(1)

FieldSpec == Init /\ [][FieldNext]_vars

\* analyze_extraction_quality called on two records, one by each caller of a pair
PairNext ==
  \E c \in Pair :
    \/ \E order \in PairOrders : call_analyze(c, order)
    \/ finish(c)

PairSpec == Init /\ [][PairNext]_vars

(***************************************************************************)
(* Properties.                                                             *)
(***************************************************************************)
Formats == {"format1", "format2", "format3"}

\* the call has the result of identify_po_format in po_format, confidence
Identified(c) ==
  op[c] = "extract_po_data" /\ pc[c] \in {"dispatch", "validate", "done", "assessed"}

\* the call has run its extractor
Extracted(c) ==
  op[c] = "extract_po_data" /\ pc[c] \in {"validate", "done", "assessed"}

\* the weights of the signatures numbered in hits, summed
RECURSIVE MatchedWeight(_, _)
MatchedWeight(f, hits) ==
  IF hits = {} THEN 0
  ELSE LET j == CHOOSE j \in hits : TRUE
       IN  format_features[f][j][2] + MatchedWeight(f, hits \ {j})

\* the score of format f in call c
Score(c, f) == MatchedWeight(f, matches[c][f])

UnknownProduct == [name |-> "Unknown Product", quantity |-> "", unitPrice |-> "", amount |-> ""]

\* C1: once the validator has run on a record (at the end of extract_po_data on
\* any text, the empty text included, or on a record handed to it directly) the
\* products list is not empty; the list has grown by one entry, the placeholder
\* named "Unknown Product" with its other fields empty, exactly when it was
\* empty before, and has kept its length otherwise.
C1_ProductsNonEmpty ==
  \A c \in Calls :
    nvalid[c] >= 1 =>
      /\ Len(result[c].products) >= 1
      /\ IF given[c].products = <<>>
         THEN result[c].products = <<UnknownProduct>>
         ELSE Len(result[c].products) = Len(given[c].products)

\* extract_po_data has returned for a text in which no line item was found
C1_Witness ==
  /\ op[1] = "extract_po_data" /\ pc[1] = "done"
  /\ extracted[1].products = <<>>
  /\ result[1].products = <<UnknownProduct>>

\* C2: the validator applied to a record it has already validated leaves the
\* record exactly as it was: validating twice gives what validating once gives.
C2_Idempotent ==
  \A c \in Calls : nvalid[c] >= 2 => result[c] = given[c]

\* a record whose fields the first run cleaned has been validated twice
C2_Witness ==
  /\ op[1] = "validate_and_clean_result" /\ nvalid[1] = 2
  /\ result[1].totalAmount = "50,000.00"
  /\ Len(result[1].products) = 2
  /\ result[1].products[1].quantity = "1,000"
  /\ result[1].products[2].quantity = "5"

\* C3: the confidence of identify_po_format lies between 0 and 1, and so do the
\* completeness and the confidence of analyze_extraction_quality (hundredths
\* between 0 and 100), for records with and without products.
C3_Bounds ==
  \A c \in Calls :
    /\ confidence[c].den > 0
    /\ 0 <= confidence[c].num /\ confidence[c].num <= confidence[c].den
    /\ 0 <= quality[c].completeness /\ quality[c].completeness <= 100
    /\ 0 <= quality[c].confidence /\ quality[c].confidence <= 100

\* a text with a signature was identified, extracted and assessed, and the
\* assessor's confidence is above its completeness
C3_Witness ==
  /\ op[1] = "extract_po_data" /\ pc[1] = "assessed"
  /\ confidence[1].num > 0
  /\ quality[1].completeness > 0
  /\ quality[1].confidence > quality[1].completeness

\* C4: the extractor of format1, format2 or format3 runs exactly when
\* identify_po_format returned that format with a confidence of at least 0.4,
\* the generic extractor runs in every other case, and what extract_po_data
\* returns is the validator applied to the result of the extractor that ran.
C4_Dispatch ==
  \A c \in Calls :
    Extracted(c) =>
      /\ \A f \in Formats :
           extractor[c] = f <=>
             (po_format[c] = f /\ 10 * confidence[c].num >= 4 * confidence[c].den)
      /\ extractor[c] = "generic" <=>
           (po_format[c] \notin Formats \/ 10 * confidence[c].num < 4 * confidence[c].den)
      /\ extracted[c] = (CASE extractor[c] = "format1" -> extract_format1_data(ocr_text[c])
                           [] extractor[c] = "format2" -> extract_format2_data(ocr_text[c])
                           [] extractor[c] = "format3" -> extract_format3_data(ocr_text[c])
                           [] OTHER -> extract_generic_data(ocr_text[c]))
      /\ (pc[c] = "done" /\ nvalid[c] = 1) =>
           /\ given[c] = extracted[c]
           /\ result[c] = validate_and_clean_result(extracted[c])

\* format3 was returned with a confidence of exactly 0.4 (14 of 35), its
\* extractor ran and the validated record was returned
C4_Witness ==
  /\ op[1] = "extract_po_data" /\ pc[1] = "done" /\ nvalid[1] = 1
  /\ po_format[1] = "format3" /\ 10 * confidence[1].num = 4 * confidence[1].den
  /\ extractor[1] = "format3"

\* C5: identify_po_format returns ("unknown", 0.0) exactly when no signature
\* of any format matches the text; when a signature matches, the format is
\* one of format1, format2, format3 and the confidence is above 0.
C5_UnknownIffNoMatch ==
  \A c \in Calls :
    Identified(c) =>
      /\ (po_format[c] = "unknown" /\ confidence[c].num = 0)
           <=> (\A f \in Formats : matches[c][f] = {})
      /\ (\E f \in Formats : matches[c][f] # {}) =>
           /\ po_format[c] \in Formats
           /\ confidence[c].num > 0 /\ confidence[c].den > 0

\* a text that is not empty was identified as unknown
C5_Witness ==
  /\ Identified(1) /\ ocr_text[1] # ""
  /\ po_format[1] = "unknown" /\ confidence[1].num = 0

\* the configured weights of a format, summed
ConfiguredTotal == [format1 |-> 33, format2 |-> 36, format3 |-> 35]

\* C6: the confidence is the summed weight of the matched signatures of the
\* format returned, divided by the summed weight of all signatures of that
\* format (33, 36, 35); the other formats do not enter the value.
C6_Confidence ==
  \A c \in Calls :
    (Identified(c) /\ po_format[c] \in Formats) =>
      confidence[c] = [num |-> Score(c, po_format[c]), den |-> ConfiguredTotal[po_format[c]]]

\* a format won while another format had matches of its own
C6_Witness ==
  /\ Identified(1) /\ po_format[1] = "format1"
  /\ Score(1, "format2") > 0 /\ Score(1, "format3") > 0
  /\ confidence[1] = [num |-> 12, den |-> 33]

\* the place of a format in the table
Rank == [format1 |-> 1, format2 |-> 2, format3 |-> 3]

\* C7: the format returned has the highest score, and of the formats that
\* share the highest score it is the first in the order format1, format2,
\* format3.
C7_HighestFirst ==
  \A c \in Calls :
    (Identified(c) /\ po_format[c] # "unknown") =>
      /\ po_format[c] \in Formats
      /\ \A f \in Formats : Score(c, f) <= Score(c, po_format[c])
      /\ \A f \in Formats :
           Rank[f] < Rank[po_format[c]] => Score(c, f) < Score(c, po_format[c])

\* format2 and format3 tied for the highest score and format2 was returned
C7_Witness ==
  /\ Identified(1) /\ po_format[1] = "format2"
  /\ Score(1, "format3") = Score(1, "format2")
  /\ Score(1, "format1") < Score(1, "format2")

\* what a call on its own returns for a text
SoloIdentify(t) == identify_po_format(t)
SoloRecord(t) == extract_po_data(t)

\* C8: whatever the interleaving of the calls that run at the same time, each
\* call gets from identify_po_format the (format, confidence) pair, and
\* returns the record, that a call on its own gets and returns for the same
\* text.
C8_SoloResult ==
  \A c \in Calls :
    /\ pc[c] = "dispatch" =>
         [format |-> po_format[c], confidence |-> confidence[c]] = SoloIdentify(ocr_text[c])
    /\ (op[c] = "extract_po_data" /\ pc[c] = "done") =>
         result[c] = SoloRecord(ocr_text[c])

\* a call has returned while another call on another text, started before it
\* returned, is between identification and extraction
C8_Witness ==
  /\ pc[1] = "done" /\ pc[2] = "dispatch"
  /\ ocr_text[1] # ocr_text[2]
  /\ po_format[1] # po_format[2]

\* C9: a text made of the five lines of Scenario A is identified as format1
\* with a confidence above 0.4, goes to the format1 extractor, and the record
\* has poNumber "12345" and destination "Tokyo".
C9_ScenarioA ==
  \A c \in Calls :
    ocr_text[c] \in ScenarioATexts =>
      /\ Identified(c) =>
           po_format[c] = "format1" /\ 10 * confidence[c].num > 4 * confidence[c].den
      /\ Extracted(c) =>
           /\ extractor[c] = "format1"
           /\ extracted[c].poNumber = "12345" /\ extracted[c].destination = "Tokyo"
      /\ (op[c] = "extract_po_data" /\ pc[c] = "done") =>
           result[c].poNumber = "12345" /\ result[c].destination = "Tokyo"

\* extract_po_data has returned for the lines of Scenario A in the order given
C9_Witness ==
  /\ op[1] = "extract_po_data" /\ pc[1] = "done"
  /\ ocr_text[1] = JoinLines(ScenarioALines, 1)
  /\ result[1].poNumber = "12345"

\* every pattern list the generic extractor hands to extract_field_by_regex
generic_field_patterns ==
  customer_patterns \o po_patterns \o total_patterns \o payment_patterns
  \o terms_patterns \o destination_patterns
  \o g_product_name \o g_quantity \o g_unit_price \o g_amount

\* nothing the generic extractor looks for is in the text: no labelled field,
\* no currency code, no line item
NothingRecognised(t) ==
  /\ \A j \in 1..Len(generic_field_patterns) : ~search(generic_field_patterns[j], t, ICML).ok
  /\ ~search(currency_pattern, t, PLAIN).ok
  /\ ~search(g_row_pattern, t, PLAIN).ok
  /\ ~search(g_section_pattern, t, PLAIN).ok

\* the call is on a text of Scenario B: no signature of a format matched and
\* nothing the generic extractor looks for is in it
ScenarioB(c) ==
  /\ Identified(c)
  /\ \A f \in Formats : matches[c][f] = {}
  /\ NothingRecognised(ocr_text[c])

NothingFound(currency) ==
  [EmptyOrder EXCEPT !.currency = currency, !.products = <<placeholder>>]

\* the call ran an extractor of test_all_extractors on the empty text and the
\* validator on what it returned
EmptyTextValidated(c) ==
  /\ op[c] = "test_all_extractors"
  /\ ocr_text[c] = ""
  /\ nvalid[c] >= 1

\* C11 as stated: on the empty text every extractor followed by the validator
\* yields "" in all seven string fields, currency among them, and the single
\* placeholder as products.
C11_AllFieldsEmpty ==
  \A c \in Calls : EmptyTextValidated(c) => result[c] = NothingFound("")

\* C11: on the empty text every extractor followed by the validator yields the
\* placeholder as the only line item and "" in customer, poNumber, totalAmount,
\* paymentTerms, terms and destination; currency is "" for format1, format2 and
\* generic, and "USD" for format3.
C11_EmptyText ==
  \A c \in Calls :
    EmptyTextValidated(c) =>
      result[c] = NothingFound(IF extractor[c] = "format3" THEN "USD" ELSE "")

C11_Witness ==
  /\ EmptyTextValidated(1)
  /\ extractor[1] = "format3"
  /\ pc[1] = "assessed"
  /\ result[1].currency = "USD"
  /\ result[1].products = <<placeholder>>

\* x is an entry of the list
Includes(list, x) == \E i \in 1..Len(list) : list[i] = x

\* Scenario E: analyze_extraction_quality was called on an order without customer,
\* with poNumber and totalAmount, and with no line items
ScenarioE(c) ==
  /\ pc[c] = "assessed"
  /\ result[c].customer = ""
  /\ result[c].poNumber # ""
  /\ result[c].totalAmount # ""
  /\ result[c].products = <<>>

\* C12 as stated: in Scenario E missing_fields contains "customer" and "products",
\* completeness is 0.5 and the recommendation is the message of the low tier.
C12_LowTier ==
  \A c \in Calls :
    ScenarioE(c) =>
      /\ Includes(quality[c].missing_fields, "customer")
      /\ Includes(quality[c].missing_fields, "products")
      /\ quality[c].completeness = 50
      /\ quality[c].recommendation = rec_low

\* C12: in Scenario E missing_fields contains "customer" and "products",
\* completeness is 0.5, and the recommendation is the message of the middle tier
\* (fill in the missing fields): 0.5 is not below 0.5.
C12_ScenarioE ==
  \A c \in Calls :
    ScenarioE(c) =>
      /\ Includes(quality[c].missing_fields, "customer")
      /\ Includes(quality[c].missing_fields, "products")
      /\ quality[c].completeness = 50
      /\ quality[c].recommendation = rec_fill

C12_Witness ==
  /\ ScenarioE(1)
  /\ op[1] = "analyze_extraction_quality"
  /\ quality[1].missing_fields = <<"customer", "products">>
  /\ quality[1].completeness = 50
  /\ quality[1].recommendation = rec_fill

\* the distance of two integers
Distance(a, b) == IF a >= b THEN a - b ELSE b - a

\* h hundredths is num/den rounded to 2 decimals (no tie occurs for den 4 and 7)
IsRounded(h, num, den) == 2 * Distance(100 * num, h * den) <= den

\* how many entries of the list equal x
Occurrences(list, x) == Cardinality({i \in 1..Len(list) : list[i] = x})

\* the names of the list separated by ", "
RECURSIVE Commas(_)
Commas(names) ==
  IF names = <<>> THEN ""
  ELSE IF Len(names) = 1 THEN names[1]
  ELSE Commas(SubSeq(names, 1, Len(names) - 1)) \o ", " \o names[Len(names)]

\* the empty sub-fields of a line item, in the order name, quantity, unitPrice, amount
EmptySubFields(item) ==
  (IF item.name = "" THEN <<"name">> ELSE <<>>)
  \o (IF item.quantity = "" THEN <<"quantity">> ELSE <<>>)
  \o (IF item.unitPrice = "" THEN <<"unitPrice">> ELSE <<>>)
  \o (IF item.amount = "" THEN <<"amount">> ELSE <<>>)

\* the product entry missing_fields is to hold for the order, if any
ProductEntry(order) ==
  IF order.products = <<>> THEN {"products"}
  ELSE IF EmptySubFields(order.products[1]) # <<>>
       THEN {"products(" \o Commas(EmptySubFields(order.products[1])) \o ")"}
       ELSE {}

\* total_fields as the claim counts it
TotalFields(order) == 3 + (IF order.products # <<>> THEN 4 ELSE 1)

\* C13: total_fields is 3 + (4 if products is non-empty, else 1); missing_fields
\* holds one entry for each empty field of customer, poNumber and totalAmount, plus
\* at most one product entry: "products(<names>)" when the first line item has an
\* empty sub-field, "products" when there is no line item; completeness is
\* (total_fields - len(missing_fields)) / total_fields rounded to 2 decimals.
C13_Completeness ==
  \A c \in Calls :
    pc[c] = "assessed" =>
      LET order   == result[c]
          missing == quality[c].missing_fields
          entries == {missing[i] : i \in 1..Len(missing)}
          empty   == {f \in {"customer", "poNumber", "totalAmount"} : order[f] = ""}
      IN  /\ entries = empty \cup ProductEntry(order)
          /\ Len(missing) = Cardinality(entries)
          /\ Cardinality(entries \ empty) <= 1
          /\ IsRounded(quality[c].completeness,
                       TotalFields(order) - Len(missing), TotalFields(order))

C13_Witness ==
  /\ pc[1] = "assessed"
  /\ Len(result[1].products) = 2
  /\ result[1].products[2].quantity # ""
  /\ quality[1].missing_fields = <<"customer", "products(quantity, unitPrice, amount)">>
  /\ quality[1].completeness = 71

\* the three tiers on a completeness given in hundredths
TierOf(completeness) ==
  IF completeness < 50 THEN rec_low
  ELSE IF completeness < 80 THEN rec_fill
  ELSE rec_good

\* C14 as stated, completeness being the value the assessment reports (rounded to
\* 2 decimals): confidence is min(1.0, completeness * 1.2) rounded to 2 decimals,
\* and the recommendation is the tier of completeness.
C14_FromReported ==
  \A c \in Calls :
    pc[c] = "assessed" =>
      LET completeness == quality[c].completeness
      IN  /\ IF 12 * completeness >= 1000 THEN quality[c].confidence = 100
             ELSE IsRounded(quality[c].confidence, 12 * completeness, 1000)
          /\ quality[c].recommendation = TierOf(completeness)

\* C14: confidence is min(1.0, ratio * 1.2) rounded to 2 decimals, where ratio is
\* (total_fields - len(missing_fields)) / total_fields before it is rounded; the
\* recommendation is the low tier below 0.5, the fill-missing-fields tier from 0.5
\* to below 0.8, and the good tier from 0.8 on.
C14_Confidence ==
  \A c \in Calls :
    pc[c] = "assessed" =>
      LET total  == TotalFields(result[c])
          filled == total - Len(quality[c].missing_fields)
      IN  /\ IF 12 * filled >= 10 * total THEN quality[c].confidence = 100
             ELSE IsRounded(quality[c].confidence, 12 * filled, 10 * total)
          /\ quality[c].recommendation = TierOf(quality[c].completeness)
          /\ quality[c].recommendation =
               (IF 2 * filled < total THEN rec_low
                ELSE IF 10 * filled < 8 * total THEN rec_fill ELSE rec_good)

C14_Witness ==
  /\ pc[1] = "assessed"
  /\ quality[1].completeness = 43
  /\ quality[1].confidence = 51
  /\ quality[1].recommendation = rec_low

\* two orders agree on customer, poNumber, totalAmount and the first line item
AgreeOnFirstItem(a, b) ==
  /\ a.customer = b.customer
  /\ a.poNumber = b.poNumber
  /\ a.totalAmount = b.totalAmount
  /\ a.products # <<>>
  /\ b.products # <<>>
  /\ a.products[1] = b.products[1]

\* C15: the assessment depends on customer, poNumber, totalAmount and the first
\* line item only: two orders that agree on these get identical assessments,
\* whatever their further line items are.
C15_FirstItemOnly ==
  \A c1 \in Pair, c2 \in Pair :
    (/\ pc[c1] = "assessed"
     /\ pc[c2] = "assessed"
     /\ AgreeOnFirstItem(result[c1], result[c2]))
    => quality[c1] = quality[c2]

C15_Witness ==
  /\ pc[1] = "assessed"
  /\ pc[2] = "assessed"
  /\ AgreeOnFirstItem(result[1], result[2])
  /\ Len(result[1].products) = 1
  /\ Len(result[2].products) = 2
  /\ result[1].products[1].quantity # ""
  /\ result[2].products[2].quantity = ""
  /\ quality[1] = quality[2]

\* the token occurs in s
HasToken(s, token) ==
  \E i \in 1..Len(s) : i + Len(token) - 1 <= Len(s) /\ SubSeq(s, i, i + Len(token) - 1) = token

\* the digits, commas and periods of s, in their order
RECURSIVE DigitsCommasPeriods(_)
DigitsCommasPeriods(s) ==
  IF Len(s) = 0 THEN ""
  ELSE DigitsCommasPeriods(SubSeq(s, 1, Len(s) - 1))
       \o (IF SubSeq(s, Len(s), Len(s)) \in
                 {"0", "1", "2", "3", "4", "5", "6", "7", "8", "9", ",", "."}
           THEN SubSeq(s, Len(s), Len(s)) ELSE "")

\* after is before with everything but digits, commas and periods removed if
\* before contains one of the tokens, and is before otherwise
CleanedBy(before, after, tokens) ==
  IF \E token \in tokens : HasToken(before, token)
  THEN after = DigitsCommasPeriods(before)
  ELSE after = before

UnitTokens == {"kg", "KG", "mt", "MT"}
MoneyTokens == {"$", "USD"}

\* C16: after the validator a quantity that contained kg, KG, mt or MT consists of
\* its original digits, commas and periods in their order, and so does a unitPrice,
\* amount or totalAmount that contained "$" or "USD"; a field that contained none
\* of its tokens is exactly as it was.
C16_Cleaned ==
  \A c \in Calls :
    nvalid[c] >= 1 =>
      /\ CleanedBy(given[c].totalAmount, result[c].totalAmount, MoneyTokens)
      /\ \A i \in 1..Len(given[c].products) :
           LET before == given[c].products[i]
               after  == result[c].products[i]
           IN  /\ CleanedBy(before.quantity, after.quantity, UnitTokens)
               /\ CleanedBy(before.unitPrice, after.unitPrice, MoneyTokens)
               /\ CleanedBy(before.amount, after.amount, MoneyTokens)
               /\ after.name = before.name

C16_Witness ==
  /\ nvalid[1] = 1
  /\ given[1].totalAmount = "US$ 50,000.00"
  /\ result[1].totalAmount = "50,000.00"
  /\ Len(given[1].products) = 2
  /\ given[1].products[1].quantity = "1,000 kg"
  /\ result[1].products[1].quantity = "1,000"
  /\ given[1].products[2].quantity = "5 MT x"
  /\ result[1].products[2].quantity = "5"
  /\ given[1].products[2].amount = "9 mt"
  /\ result[1].products[2].amount = "9 mt"

\* the characters the field extractor trims from a value: whitespace and colons
Noise == Space \cup {":"}

\* the positions of s whose character is not in drop
Kept(s, drop) == {i \in 1..Len(s) : SubSeq(s, i, i) \notin drop}

\* s without its leading and trailing characters of drop
Core(s, drop) ==
  IF Kept(s, drop) = {} THEN ""
  ELSE SubSeq(s, CHOOSE i \in Kept(s, drop) : \A k \in Kept(s, drop) : i <= k,
                 CHOOSE i \in Kept(s, drop) : \A k \in Kept(s, drop) : i >= k)

\* the first capture group of the j-th pattern of the call, if the pattern matches
CaptureOf(c, j) ==
  LET match == search(patterns[c][j], ocr_text[c], ICML)
  IN  IF match.ok THEN <<group(ocr_text[c], match, 1)>> ELSE <<>>

\* the j-th pattern matches with a capture that is not empty after trimming whitespace
Succeeds(c, j) ==
  /\ CaptureOf(c, j) # <<>>
  /\ Core(CaptureOf(c, j)[1], Space) # ""

\* extract_field_by_regex has returned to the caller
Returned(c) == pc[c] = "returned"

\* C17: extract_field_by_regex returns the trimmed first capture group of the
\* first pattern, in the order of the list, that matches with a capture that is
\* not empty after trimming whitespace, whatever the later patterns would match;
\* if there is no such pattern it returns the default value.
C17_FirstSuccess ==
  \A c \in Calls :
    Returned(c) =>
      LET ok == {j \in 1..Len(patterns[c]) : Succeeds(c, j)}
      IN  IF ok = {} THEN value[c] = default_value[c]
          ELSE LET first == CHOOSE j \in ok : \A k \in ok : j <= k
               IN  value[c] = Core(CaptureOf(c, first)[1], Noise)

C17_Witness ==
  /\ Returned(1)
  /\ ocr_text[1] = "Destination: Osaka\nDelivery Address: : Kobe :"
  /\ Len(patterns[1]) = 3
  /\ ~Succeeds(1, 1)
  /\ Succeeds(1, 2)
  /\ Succeeds(1, 3)
  /\ default_value[1] = "N/A"
  /\ value[1] = "Osaka"

\* C18 as stated: a value extract_field_by_regex takes from a match is not empty
\* and has no colon or whitespace at its start or end; so the result is always
\* the default value or a non-empty string.
C18_NonEmptyFromMatch ==
  \A c \in Calls :
    Returned(c) =>
      /\ (\E j \in 1..Len(patterns[c]) : Succeeds(c, j)) =>
            /\ value[c] # ""
            /\ SubSeq(value[c], 1, 1) \notin Noise
            /\ SubSeq(value[c], Len(value[c]), Len(value[c])) \notin Noise
      /\ value[c] = default_value[c] \/ value[c] # ""

\* a call whose first pattern captures a colon returns "" although a later
\* pattern of the list finds a destination and the default is not empty
C18_Witness ==
  /\ Returned(1)
  /\ ocr_text[1] = "Destination: Osaka\nShip to: :"
  /\ CaptureOf(1, 1) = <<":">>
  /\ Succeeds(1, 2)
  /\ default_value[1] = "N/A"
  /\ value[1] = ""

\* the call ran the named extractor of test_all_extractors on its text
Ran(c, name) == op[c] = "test_all_extractors" /\ extractor[c] = name

\* what the field extractor finds in the text of the call for a pattern list
Found(c, pattern_list) == extract_field_by_regex(ocr_text[c], pattern_list, "")

\* C19: the format1 extractor returns at most one line item, and exactly one if
\* and only if a product name was found; the item carries the name and the
\* quantity, unit price and amount extracted independently of one another ("" for
\* one not found); without a product name no line item is returned, whatever
\* quantity, unit price or amount the text holds.
C19_Format1Item ==
  \A c \in Calls :
    Ran(c, "format1") =>
      LET products == extracted[c].products
          name     == Found(c, format1_patterns.product_name)
      IN  /\ Len(products) <= 1
          /\ Len(products) = 1 <=> name # ""
          /\ Len(products) = 1 =>
                products[1] = [name      |-> name,
                               quantity  |-> Found(c, format1_patterns.quantity),
                               unitPrice |-> Found(c, format1_patterns.unit_price),
                               amount    |-> Found(c, format1_patterns.amount)]

C19_Witness ==
  /\ Ran(1, "format1")
  /\ ocr_text[1] = "Item: Widget\nQuantity: 1,000 kg"
  /\ extracted[1].products = <<LineItem("Widget", "1,000", "", "")>>

\* C20: the format3 extractor returns currency "USD" whatever the text holds, and
\* at most one line item: exactly one, named "Grade <code>", if and only if a
\* grade was found.
C20_Format3 ==
  \A c \in Calls :
    Ran(c, "format3") =>
      LET products == extracted[c].products
          grade    == Found(c, format3_patterns.grade)
      IN  /\ extracted[c].currency = "USD"
          /\ Len(products) <= 1
          /\ Len(products) = 1 <=> grade # ""
          /\ Len(products) = 1 => products[1].name = "Grade " \o grade

C20_Witness ==
  /\ Ran(1, "format3")
  /\ ocr_text[1] = "Grade A1\npaid in EUR"
  /\ extracted[1].currency = "USD"
  /\ Len(extracted[1].products) = 1
  /\ extracted[1].products[1].name = "Grade A1"

\* what the three strategies of extract_format2_data find in the text of the call
RowsIn(c) == findall(format2_patterns.row_pattern, ocr_text[c], PLAIN)
SectionsIn(c) == findall(format2_patterns.section_pattern, ocr_text[c], PLAIN)
NamesIn(c) ==
  groups1(ocr_text[c], findall(format2_patterns.name_pattern, ocr_text[c], PLAIN))
QuantitiesIn(c) ==
  groups1(ocr_text[c], findall(format2_patterns.quantity_pattern, ocr_text[c], PLAIN))
PricesIn(c) ==
  groups1(ocr_text[c], findall(format2_patterns.price_pattern, ocr_text[c], PLAIN))

\* C21: the format2 extractor takes its line items from the table rows if there
\* are any; from the sections only if there is no row; from the positional pairing
\* only if neither rows nor sections gave an item; never from two strategies.
C21_OneStrategy ==
  \A c \in Calls :
    Ran(c, "format2") =>
      LET products == extracted[c].products
      IN  IF RowsIn(c) # <<>>
          THEN products = f2_row_items(ocr_text[c], RowsIn(c))
          ELSE IF SectionsIn(c) # <<>>
          THEN products = f2_section_items(ocr_text[c], SectionsIn(c))
          ELSE products = f2_paired_items(NamesIn(c), QuantitiesIn(c), PricesIn(c), 0)

C21_Witness ==
  /\ Ran(1, "format2")
  /\ ocr_text[1] = "X1 Product A 10 kg US$2.00 US$20.00\n5 kg US$1.00 US$5.00 US$9.99"
  /\ RowsIn(1) # <<>>
  /\ SectionsIn(1) # <<>>
  /\ extracted[1].products = <<LineItem("Product A", "10", "2.00", "20.00")>>

\* the least of three numbers
Min3(a, b, d) == IF a <= b /\ a <= d THEN a ELSE IF b <= d THEN b ELSE d

\* the positional pairing decides the line items of the call
PairingUsed(c) == Ran(c, "format2") /\ RowsIn(c) = <<>> /\ SectionsIn(c) = <<>>

\* C22: in the positional pairing of format2 the i-th line item (0-based) is
\* ("Product " + names[i], quantities[i], prices[2i], prices[2i+1]); there are
\* min(len(names), len(quantities), floor(len(prices)/2)) items, what is left over
\* is dropped, and no item has an empty quantity, unit price or amount.
C22_Pairing ==
  \A c \in Calls :
    PairingUsed(c) =>
      LET products == extracted[c].products
      IN  /\ Len(products) =
               Min3(Len(NamesIn(c)), Len(QuantitiesIn(c)), Len(PricesIn(c)) \div 2)
          /\ \A k \in 1..Len(products) :
               /\ products[k] = [name      |-> "Product " \o NamesIn(c)[k],
                                 quantity  |-> QuantitiesIn(c)[k],
                                 unitPrice |-> PricesIn(c)[2 * k - 1],
                                 amount    |-> PricesIn(c)[2 * k]]
               /\ products[k].quantity # ""
               /\ products[k].unitPrice # ""
               /\ products[k].amount # ""

C22_Witness ==
  /\ PairingUsed(1)
  /\ Len(NamesIn(1)) = 2
  /\ Len(QuantitiesIn(1)) = 2
  /\ Len(PricesIn(1)) = 4
  /\ extracted[1].products = <<LineItem("Product C", "7", "3.00", "21.00"),
                               LineItem("Product D", "9", "4.00", "36.00")>>

\* what the first two strategies of extract_generic_data find in the text of the call
GenericRowsIn(c) == findall(g_row_pattern, ocr_text[c], PLAIN)
GenericSectionsIn(c) == findall(g_section_pattern, ocr_text[c], PLAIN)

\* the third strategy decides the line items of the call
LastTier(c) ==
  Ran(c, "generic") /\ GenericRowsIn(c) = <<>> /\ GenericSectionsIn(c) = <<>>

\* what the positional pairing makes of the text of the call
PairedIn(c) == f2_paired_items(NamesIn(c), QuantitiesIn(c), PricesIn(c), 0)

C24_NamedItems ==
  \A c \in Calls :
    Ran(c, "generic") =>
      \A k \in 1..Len(extracted[c].products) :
        /\ extracted[c].products[k].name # ""
        /\ Found(c, g_product_name) = "" /\ ~search(g_name_pattern, ocr_text[c], PLAIN).ok
             => extracted[c].products[k].name = "Unknown Product " \o IntToStr(k)

\* a section whose name match captured nothing: the item has the empty name
C24_Witness ==
  /\ Ran(1, "generic")
  /\ ocr_text[1] = "Product e 5 kg 2.00 10.00\nItem:"
  /\ GenericRowsIn(1) = <<>>
  /\ search(g_name_pattern, ocr_text[1], PLAIN).ok
  /\ extracted[1].products = <<LineItem("", "5", "2.00", "10.00")>>

\* the call is extract_po_data(ocr_id) on a row whose stored document does not parse
Unparseable(c) ==
  /\ op[c] = "extract_po_data"
  /\ ocr_data[c] \in 1..Len(ocr_results)
  /\ decode[c] = "JSONDecodeError"

\* C25 as stated: extract_po_data called with the id of a row whose stored
\* processed_data does not parse raises an error; it returns no record.
C25_Raises ==
  \A c \in Calls : Unparseable(c) => pc[c] # "done"

\* C25: extract_po_data called with the id of a row whose stored processed_data
\* does not parse does not raise: the text it extracts from is the empty text,
\* and the record it returns is that of the empty text, all fields empty and the
\* placeholder as the only line item.
C25_EmptyRecord ==
  \A c \in Calls :
    Unparseable(c) =>
      /\ ocr_text[c] = ""
      /\ pc[c] = "done" => result[c] = NothingFound("")

C25_Witness ==
  /\ Unparseable(1)
  /\ ocr_results[ocr_data[1]].processed_data = "not json"
  /\ pc[1] = "done"
  /\ extractor[1] = "generic"
  /\ result[1].products = <<placeholder>>

\* the stored document of the row parses and has an entry of that key
HasEntry(row, key) ==
  \E doc \in {json_loads(row.processed_data)} :
    doc.ok /\ \E j \in 1..Len(doc.dict) : doc.dict[j][1] = key

\* the call of process_document that ended last was for a row of the table
RanOnRow == processed.found

\* the extension of the file of that call is one process_document reads
Supported == file_ext(processed.file_path) \in {".pdf", ".png", ".jpg", ".jpeg"}

\* where the call of process_document that ended last has left its row
ProcessingEnded ==
  RanOnRow =>
    LET row == ocr_results[processed.ocr_id]
    IN  IF Supported /\ ~processed.raised
        THEN row.status = "completed" /\ HasEntry(row, "text_content")
        ELSE row.status = "failed" /\ HasEntry(row, "error")

\* the step is a request extract_order_data(ocr_id) of caller c and its answer
Answered(c) ==
  /\ pc[c] = "idle"
  /\ pc'[c] = "returned"
  /\ op'[c] = "extract_order_data"

\* the answer to extract_order_data, by the row at the time of the request
AnswerByStatus(c) ==
  LET ocr_id == ocr_data'[c]
  IN  IF ocr_id \notin 1..Len(ocr_results) THEN response'[c].status_code = 404
      ELSE IF ocr_results[ocr_id].status # "completed" THEN response'[c].status_code = 400
      ELSE /\ response'[c].status_code = 200
           /\ ocr_text'[c] = stored_text(ocr_results, ocr_id)
           /\ response'[c].data = result'[c]

\* C28: a call of process_document for a row of the table leaves the row
\* "completed" with a "text_content" entry in processed_data when the extension
\* is supported and recognition did not raise, and "failed" with an "error"
\* entry otherwise, never "processing"; extract_order_data answers 404 for an id
\* without a row, 400 for a row that is not "completed", and the extracted data
\* only for a "completed" row.
C28_Processing ==
  /\ []ProcessingEnded
  /\ [][\A c \in Calls : Answered(c) => AnswerByStatus(c)]_vars

C28_Witness ==
  /\ RanOnRow
  /\ Supported
  /\ processed.raised
  /\ ocr_results[processed.ocr_id].status = "failed"
  /\ HasEntry(ocr_results[processed.ocr_id], "error")
  /\ ~HasEntry(ocr_results[processed.ocr_id], "text_content")
  /\ op[1] = "extract_order_data"
  /\ ocr_data[1] = processed.ocr_id
  /\ response[1].status_code = 400

\* the purchase order a request names exists
Names(c) == po_request'[c].po_id \in 1..Len(purchase_orders)

\* the step is the request op of caller c
Requested(c, request) == pc[c] = "idle" /\ pc'[c] = "returned" /\ op'[c] = request

StatusListed ==
  \A i \in 1..Len(purchase_orders) :
    purchase_orders[i].status \in {TehaiMae, TehaiChu, TehaiZumi, KeijoZumi}

StaysKeijoZumi ==
  \A i \in 1..Len(purchase_orders) :
    purchase_orders[i].status = KeijoZumi =>
      /\ i \in 1..Len(purchase_orders')
      /\ purchase_orders'[i].status = KeijoZumi

OtherStatusRejected(c) ==
  ( /\ Requested(c, "update_po_status")
    /\ Names(c)
    /\ purchase_orders[po_request'[c].po_id].status = KeijoZumi
    /\ po_request'[c].status # KeijoZumi )
  => /\ response'[c].status_code = 400
     /\ purchase_orders' = purchase_orders

\* C26: keijo-zumi is terminal: no step changes the status of a purchase order
\* that has it; update_po_status for any other status on such a purchase order
\* is answered 400 and leaves the purchase orders as they are; and the status
\* of every purchase order is always one of the four.
C26_Terminal ==
  /\ []StatusListed
  /\ [][StaysKeijoZumi]_vars
  /\ [][\A c \in Calls : OtherStatusRejected(c)]_vars

\* a request for tehai-chu on a purchase order in keijo-zumi was answered 400
C26_Witness ==
  /\ pc[1] = "returned" /\ op[1] = "update_po_status"
  /\ po_request[1].po_id \in 1..Len(purchase_orders)
  /\ purchase_orders[po_request[1].po_id].status = KeijoZumi
  /\ po_request[1].status = TehaiChu
  /\ response[1].status_code = 400

\* add_shipping_info answered 200 and left the purchase order's shipping row
\* with a booking number
Booked(c) ==
  /\ Requested(c, "add_shipping_info")
  /\ response'[c].status_code = 200
  /\ shipping_schedules'[shipping_of(shipping_schedules', po_request'[c].po_id)].booking_number
       # ""

\* C27: when add_shipping_info leaves the shipping row of a purchase order with
\* a non-empty booking number, and the purchase order was in a status other
\* than keijo-zumi, its status is tehai-zumi afterwards.
C27_BookingArranges ==
  [][\A c \in Calls :
       (Booked(c) /\ purchase_orders[po_request'[c].po_id].status # KeijoZumi)
       => purchase_orders'[po_request'[c].po_id].status = TehaiZumi]_vars

\* a purchase order in tehai-mae whose shipping row has a booking number
C27_Witness ==
  /\ pc[1] = "returned" /\ op[1] = "add_shipping_info"
  /\ response[1].status_code = 200
  /\ po_request[1].po_id \in 1..Len(purchase_orders)
  /\ purchase_orders[po_request[1].po_id].status = TehaiMae
  /\ shipping_schedules[shipping_of(shipping_schedules, po_request[1].po_id)].booking_number
       = "BK-1"

\* the validator has run on the record of caller c: given[c] is the record it
\* received, result[c] the record it left
Validated(c) == pc[c] \in {"done", "assessed"} /\ nvalid[c] >= 1

HeaderKept(c) ==
  \A f \in {"customer", "poNumber", "currency", "paymentTerms", "terms", "destination"} :
    result[c][f] = given[c][f]

ItemsKept(c) ==
  IF given[c].products = <<>>
  THEN result[c].products = <<placeholder>>
  ELSE /\ Len(result[c].products) = Len(given[c].products)
       /\ \A i \in 1..Len(given[c].products) :
            result[c].products[i].name = given[c].products[i].name

\* C29: validate_and_clean_result leaves customer, poNumber, currency,
\* paymentTerms, terms and destination as they were, leaves the name of every
\* line item as it was and every line item in its place, and changes the
\* number of line items only by appending the one placeholder to an empty list.
C29_Frame == \A c \in Calls : Validated(c) => HeaderKept(c) /\ ItemsKept(c)

\* two line items with different names, of which the validator cleaned a field
C29_Witness ==
  /\ Validated(1)
  /\ Len(given[1].products) = 2
  /\ given[1].products[1].name = "Widget" /\ given[1].products[2].name = "Bolt"
  /\ result[1].products[1].quantity # given[1].products[1].quantity
  /\ given[1].customer = "ACME"

\* analyze_extraction_quality has run on the record of caller c
Assessed(c) == pc[c] = "assessed"

Reported(c, entry) ==
  \E j \in 1..Len(quality[c].missing_fields) : quality[c].missing_fields[j] = entry

\* C30: for a record that has passed through validate_and_clean_result the
\* assessor counts 7 slots, never reports the bare "products" entry, and
\* reports completeness of at least 0.43 and confidence of at least 0.51;
\* completeness 0.0 is reported only for records without line items, and for
\* those completeness is at most 0.75 and the recommendation is never the good
\* one.
C30_ValidatedQuality ==
  \A c \in Calls :
    Assessed(c) =>
      /\ nvalid[c] >= 1 =>
           /\ total_fields_of(result[c]) = 7
           /\ ~Reported(c, "products")
           /\ quality[c].completeness >= 43
           /\ quality[c].confidence >= 51
      /\ quality[c].completeness = 0 => result[c].products = <<>>
      /\ result[c].products = <<>> =>
           /\ quality[c].completeness <= 75
           /\ quality[c].recommendation # rec_good

\* the record of a text without anything to extract, validated and assessed:
\* three header entries and the entry of the placeholder's sub-fields missing
C30_Witness ==
  /\ Assessed(1) /\ nvalid[1] >= 1 /\ op[1] = "extract_po_data"
  /\ quality[1].completeness = 43
  /\ quality[1].confidence = 51
  /\ Len(quality[1].missing_fields) = 4

====
